---- MODULE Spec2Model ----
(***************************************************************************)
(* Session controller (Ctx) and command registry of the solidity-analyzer  *)
(* VS Code extension.                                                      *)
(*                                                                         *)
(* Ctx.start / stop / restart / dispose / updateConfig are async methods:  *)
(* each invocation occupies a call slot and advances from one await to the *)
(* next in one atomic step (JavaScript runs to completion between awaits). *)
(* The language client library is the environment: a client goes           *)
(* initial -> starting -> running | startFailed, running -> stopping ->    *)
(* stopped, and reports its public state (Starting, Running, Stopped) to   *)
(* the listener Ctx.start attached, synchronously with the change.         *)
(*                                                                         *)
(* Every operation is a function from the whole state (a record) to the    *)
(* next state, so that a handler's synchronous calls compose in the order  *)
(* of the code.                                                            *)
(***************************************************************************)
EXTENDS Integers, Sequences, FiniteSets, TLC

\* ---- bounds ----
MaxCalls == 2
MaxClients == 2
NumConfigs == 2

Procs == 1..MaxCalls
Clients == 1..MaxClients
Configs == 1..NumConfigs

ServerStates == {"starting", "running", "stopped", "error"}
NoStatus == "none"
Healths == {"ok", "warning"}

\* ---- JavaScript values of the settings ----

\* A value and its type tag; ?? and ?. look at the tag only.
JsUndefined == [type |-> "undefined", val |-> <<>>]
JsNull == [type |-> "null", val |-> <<>>]
JsBool(b) == [type |-> "boolean", val |-> b]
JsString(t) == [type |-> "string", val |-> t]
JsObject(o) == [type |-> "object", val |-> o]

Nullish(x) == x.type \in {"undefined", "null"}

\* Mutant: a || b, every falsy value gives way to the default.
CoalesceFalsy(x, d) ==
    IF Nullish(x) \/ (x.type = "boolean" /\ ~x.val) \/ (x.type = "string" /\ x.val = "")
    THEN d ELSE x

\* a ?? b
Coalesce(x, d) == IF Nullish(x) THEN d ELSE x

\* o.k, undefined when o has no property k
Prop(o, k) == IF k \in DOMAIN o THEN o[k] ELSE JsUndefined

\* o?.f
OptGet(o, f) == IF Nullish(o) THEN JsUndefined ELSE o.val[f]

\* ---- config.ts: expandEnv ----

\* Strings that are scanned are sequences of characters.
EnvPrefix == <<"$", "{", "e", "n", "v", ":">>

\* ENV_PATTERN matches at i: the prefix, one or more characters other than "}",
\* then "}". The result is the index of that "}", or 0.
RECURSIVE CloseFrom(_, _)
CloseFrom(s, j) ==
    IF j > Len(s) THEN 0
    ELSE IF s[j] = "}" THEN j ELSE CloseFrom(s, j + 1)

MatchAt(s, i) ==
    IF i + 5 <= Len(s) /\ SubSeq(s, i, i + 5) = EnvPrefix
    THEN LET k == CloseFrom(s, i + 6) IN IF k > i + 6 THEN k ELSE 0
    ELSE 0

\* env[name] ?? ""
EnvLookup(env, name) == IF name \in DOMAIN env THEN env[name] ELSE <<>>

\* String.prototype.replace with a global pattern: the matches are found from left
\* to right in the original string, the text between them is copied.
RECURSIVE ReplaceFrom(_, _, _)
ReplaceFrom(s, i, env) ==
    IF i > Len(s) THEN <<>>
    ELSE LET k == MatchAt(s, i)
         IN IF k # 0
            THEN EnvLookup(env, SubSeq(s, i + 6, k - 1)) \o ReplaceFrom(s, k + 1, env)
            ELSE <<s[i]>> \o ReplaceFrom(s, i + 1, env)

\* Mutant: the inserted text is scanned again.
ExpandEnvRescans(value, env) == ReplaceFrom(ReplaceFrom(value, 1, env), 1, env)

ExpandEnv(value, env) == ReplaceFrom(value, 1, env)

EmptyExtraEnv == [k \in {} |-> <<>>]

NormalizeExtraEnv(extraEnv, env) ==
    IF Nullish(extraEnv)
    THEN EmptyExtraEnv
    ELSE [k \in {key \in DOMAIN extraEnv.val : ~Nullish(extraEnv.val[key])} |->
            ExpandEnv(extraEnv.val[k].val, env)]

\* ---- config.ts: defaultConfig, normalizeConfig, prepareVSCodeConfig ----

DefaultConfig ==
    [server |-> [path |-> JsNull, extraEnv |-> EmptyExtraEnv],
     trace |-> [server |-> JsString("off")],
     statusBar |-> [show |-> JsString("whenActive"), clickAction |-> JsString("openLogs")],
     completion |-> [enable |-> JsBool(TRUE)],
     hover |-> [enable |-> JsBool(TRUE)],
     signatureHelp |-> [enable |-> JsBool(TRUE)],
     rename |-> [enable |-> JsBool(TRUE)],
     references |-> [enable |-> JsBool(TRUE)],
     diagnostics |-> [enable |-> JsBool(TRUE), onSave |-> JsBool(TRUE), onChange |-> JsBool(TRUE)],
     format |-> [enable |-> JsBool(TRUE), onSave |-> JsBool(FALSE)],
     lint |-> [enable |-> JsBool(TRUE), onSave |-> JsBool(TRUE), fixOnSave |-> JsBool(FALSE)],
     toolchain |-> [promptInstall |-> JsBool(TRUE)],
     initializeStopped |-> JsBool(FALSE)]

\* raw = {}
EmptyRaw == [k \in {} |-> JsUndefined]

EmptyEnv == [n \in {} |-> <<>>]

NormalizeConfig(raw, env) ==
    [server |-> [path |-> Coalesce(OptGet(Prop(raw, "server"), "path"), DefaultConfig.server.path),
                 extraEnv |-> NormalizeExtraEnv(OptGet(Prop(raw, "server"), "extraEnv"), env)],
     trace |-> [server |-> Coalesce(OptGet(Prop(raw, "trace"), "server"), DefaultConfig.trace.server)],
     statusBar |->
        [show |-> Coalesce(OptGet(Prop(raw, "statusBar"), "show"), DefaultConfig.statusBar.show),
         clickAction |-> Coalesce(OptGet(Prop(raw, "statusBar"), "clickAction"),
                                  DefaultConfig.statusBar.clickAction)],
     completion |->
        [enable |-> Coalesce(OptGet(Prop(raw, "completion"), "enable"), DefaultConfig.completion.enable)],
     hover |-> [enable |-> Coalesce(OptGet(Prop(raw, "hover"), "enable"), DefaultConfig.hover.enable)],
     signatureHelp |->
        [enable |-> Coalesce(OptGet(Prop(raw, "signatureHelp"), "enable"),
                             DefaultConfig.signatureHelp.enable)],
     rename |-> [enable |-> Coalesce(OptGet(Prop(raw, "rename"), "enable"), DefaultConfig.rename.enable)],
     references |->
        [enable |-> Coalesce(OptGet(Prop(raw, "references"), "enable"), DefaultConfig.references.enable)],
     diagnostics |->
        [enable |-> Coalesce(OptGet(Prop(raw, "diagnostics"), "enable"), DefaultConfig.diagnostics.enable),
         onSave |-> Coalesce(OptGet(Prop(raw, "diagnostics"), "onSave"), DefaultConfig.diagnostics.onSave),
         onChange |-> Coalesce(OptGet(Prop(raw, "diagnostics"), "onChange"),
                               DefaultConfig.diagnostics.onChange)],
     format |->
        [enable |-> Coalesce(OptGet(Prop(raw, "format"), "enable"), DefaultConfig.format.enable),
         onSave |-> Coalesce(OptGet(Prop(raw, "format"), "onSave"), DefaultConfig.format.onSave)],
     lint |->
        [enable |-> Coalesce(OptGet(Prop(raw, "lint"), "enable"), DefaultConfig.lint.enable),
         onSave |-> Coalesce(OptGet(Prop(raw, "lint"), "onSave"), DefaultConfig.lint.onSave),
         fixOnSave |-> Coalesce(OptGet(Prop(raw, "lint"), "fixOnSave"), DefaultConfig.lint.fixOnSave)],
     toolchain |->
        [promptInstall |-> Coalesce(OptGet(Prop(raw, "toolchain"), "promptInstall"),
                                    DefaultConfig.toolchain.promptInstall)],
     initializeStopped |-> Coalesce(Prop(raw, "initializeStopped"), DefaultConfig.initializeStopped)]

\* Mutant: the extra environment is not carried over.
PrepareVSCodeConfigDropsExtraEnv(config) ==
    [config EXCEPT !.server.extraEnv = EmptyExtraEnv]

PrepareVSCodeConfig(config) ==
    [server |-> [path |-> config.server.path, extraEnv |-> config.server.extraEnv],
     trace |-> [server |-> config.trace.server],
     statusBar |-> [show |-> config.statusBar.show,
                    clickAction |-> config.statusBar.clickAction],
     completion |-> [enable |-> config.completion.enable],
     hover |-> [enable |-> config.hover.enable],
     signatureHelp |-> [enable |-> config.signatureHelp.enable],
     rename |-> [enable |-> config.rename.enable],
     references |-> [enable |-> config.references.enable],
     diagnostics |-> [enable |-> config.diagnostics.enable,
                      onSave |-> config.diagnostics.onSave,
                      onChange |-> config.diagnostics.onChange],
     format |-> [enable |-> config.format.enable, onSave |-> config.format.onSave],
     lint |-> [enable |-> config.lint.enable, onSave |-> config.lint.onSave,
               fixOnSave |-> config.lint.fixOnSave],
     toolchain |-> [promptInstall |-> config.toolchain.promptInstall],
     initializeStopped |-> config.initializeStopped]

\* An ExtensionConfig passed where a RawConfig is expected: the same object, its
\* sections and its extra environment being objects.
AsRaw(config) ==
    [server |-> JsObject([path |-> config.server.path,
                          extraEnv |-> JsObject([k \in DOMAIN config.server.extraEnv |->
                                                   JsString(config.server.extraEnv[k])])]),
     trace |-> JsObject(config.trace),
     statusBar |-> JsObject(config.statusBar),
     completion |-> JsObject(config.completion),
     hover |-> JsObject(config.hover),
     signatureHelp |-> JsObject(config.signatureHelp),
     rename |-> JsObject(config.rename),
     references |-> JsObject(config.references),
     diagnostics |-> JsObject(config.diagnostics),
     format |-> JsObject(config.format),
     lint |-> JsObject(config.lint),
     toolchain |-> JsObject(config.toolchain),
     initializeStopped |-> config.initializeStopped]

\* ---- bootstrap.ts: resolveServerPath ----

\* Strings that are only compared or joined are TLA+ strings.
DebugEnvKey == "__SA_LSP_SERVER_DEBUG"
DefaultServerCommand == "solidity-analyzer"
BundledServerDir == "server"

\* if (x): neither undefined, null nor the empty string.
Truthy(x) == ~Nullish(x) /\ x.val # ""

\* Mutant: no suffix on any platform.
ResolveExecutableNameNoSuffix(platform) == DefaultServerCommand

ResolveExecutableName(platform) ==
    IF platform = "win32" THEN DefaultServerCommand \o ".exe" ELSE DefaultServerCommand

\* path.join of three segments.
Join(a, b, c) == a \o "/" \o b \o "/" \o c

ResolveBundledServerPath(extensionPath, platform) ==
    Join(extensionPath, BundledServerDir, ResolveExecutableName(platform))

\* files: what existsSync finds.
ResolveServerPath(cfg, extensionPath, e, platform, files) ==
    IF Truthy(cfg.server.path)
    THEN cfg.server.path.val
    ELSE LET debugPath == IF DebugEnvKey \in DOMAIN e THEN JsString(e[DebugEnvKey])
                          ELSE JsUndefined
         IN IF Truthy(debugPath)
            THEN debugPath.val
            ELSE IF Truthy(extensionPath)
                    /\ ResolveBundledServerPath(extensionPath.val, platform) \in files
                 THEN ResolveBundledServerPath(extensionPath.val, platform)
                 ELSE DefaultServerCommand

ExtensionPaths == {JsUndefined, JsString(""), JsString("/ext")}
ProcessEnvs == {EmptyEnv, DebugEnvKey :> "", DebugEnvKey :> "/tmp/debug"}
Platforms == {"linux", "darwin", "win32"}
BundledFiles == {"/ext/server/solidity-analyzer", "/ext/server/solidity-analyzer.exe"}

\* ---- lsp_ext.ts, client.ts: the experimental capabilities ----

EXPERIMENTAL_CAPABILITIES ==
    [snippetTextEdit |-> TRUE, codeActionGroup |-> TRUE, serverStatusNotification |-> TRUE]

EmptyObject == [k \in {} |-> TRUE]

\* { ...a, ...b }
Spread(a, b) == [k \in DOMAIN a \cup DOMAIN b |-> IF k \in DOMAIN b THEN b[k] ELSE a[k]]

\* Mutant: what the handshake already holds wins over the overrides.
ApplyExperimentalCapabilitiesExistingWins(experimental, overrides) ==
    LET existing == IF experimental.type = "object" THEN experimental.val ELSE EmptyObject
    IN Spread(Spread(EXPERIMENTAL_CAPABILITIES, overrides), existing)

\* The new capabilities.experimental, from the old one and the overrides.
ApplyExperimentalCapabilities(experimental, overrides) ==
    LET existing == IF experimental.type = "object" THEN experimental.val ELSE EmptyObject
    IN Spread(Spread(EXPERIMENTAL_CAPABILITIES, existing), overrides)

\* Mutant: the initialization payload is the default snapshot.
ClientOptionsDefaultPayload(cfg) ==
    [built |-> TRUE,
     documentSelector |-> <<[language |-> "solidity", scheme |-> "file"],
                            [language |-> "solidity", scheme |-> "untitled"]>>,
     initializationOptions |-> PrepareVSCodeConfig(DefaultConfig),
     experimental |-> Spread(EmptyObject, EXPERIMENTAL_CAPABILITIES)]

ClientOptions(cfg) ==
    [built |-> TRUE,
     documentSelector |-> <<[language |-> "solidity", scheme |-> "file"],
                            [language |-> "solidity", scheme |-> "untitled"]>>,
     initializationOptions |-> PrepareVSCodeConfig(cfg),
     experimental |-> Spread(EmptyObject, EXPERIMENTAL_CAPABILITIES)]

\* capabilities.experimental before the capability set is put in.
ExistingExperimental ==
    {JsUndefined, JsNull, JsString("yes")}
    \cup {JsObject(o) : o \in UNION {[D -> BOOLEAN] : D \in SUBSET {"snippetTextEdit", "custom"}}}

\* Partial<ExperimentalCapabilities>
Overrides == UNION {[D -> BOOLEAN] : D \in SUBSET DOMAIN EXPERIMENTAL_CAPABILITIES}

\* ---- statusBar.ts ----

STATUS_BAR_LANGUAGE_ID == "solidity"

\* Mutant: whenActive shows the item while no document is focused.
ShouldShowStatusBarWithoutEditor(show, languageId) ==
    IF show = "always" THEN TRUE
    ELSE IF show = "never" THEN FALSE
    ELSE languageId \in {STATUS_BAR_LANGUAGE_ID, "none"}

\* languageId is NoEditor when editor?.document.languageId is undefined.
ShouldShowStatusBar(show, languageId) ==
    IF show = "always" THEN TRUE
    ELSE IF show = "never" THEN FALSE
    ELSE languageId = STATUS_BAR_LANGUAGE_ID

StatusBarCommand(action) ==
    IF action = "restartServer" THEN "solidity-analyzer.restartServer"
    ELSE "solidity-analyzer.openLogs"

Languages == {"none", "solidity", "rust"}

\* statusBar.show and statusBar.clickAction of the snapshot with identity cfg; 0 is
\* no snapshot, for which resolvedConfig() gives the defaults of normalizeConfig().
BarShows == <<"whenActive", "always", "never", "whenActive", "always", "never">>
BarClickActions ==
    <<"openLogs", "restartServer", "openLogs", "restartServer", "openLogs", "restartServer">>

ShowOf(cfg) == IF cfg = 0 THEN "whenActive" ELSE BarShows[((cfg - 1) % Len(BarShows)) + 1]

ClickActionOf(cfg) ==
    IF cfg = 0 THEN "openLogs" ELSE BarClickActions[((cfg - 1) % Len(BarClickActions)) + 1]

\* ServerStatusParams, by the name the model gives each notification.
StatusParams(status) ==
    CASE status = "ok" -> [health |-> "ok", quiescent |-> TRUE, message |-> JsUndefined]
      [] status = "warning" ->
            [health |-> "warning", quiescent |-> TRUE, message |-> JsString("solc missing")]
      [] status = "error" ->
            [health |-> "error", quiescent |-> TRUE, message |-> JsString("crashed")]
      [] status = "busy" -> [health |-> "ok", quiescent |-> FALSE, message |-> JsUndefined]
      [] status = "indexing" ->
            [health |-> "ok", quiescent |-> FALSE, message |-> JsString("indexing")]
      [] status = "ready" -> [health |-> "ok", quiescent |-> TRUE, message |-> JsString("ready")]
      [] status = "okEmpty" -> [health |-> "ok", quiescent |-> TRUE, message |-> JsString("")]
      [] status = "warningBusy" ->
            [health |-> "warning", quiescent |-> FALSE, message |-> JsUndefined]
      [] status = "errorBusy" ->
            [health |-> "error", quiescent |-> FALSE, message |-> JsString("")]
      [] OTHER -> [health |-> "error", quiescent |-> TRUE, message |-> JsUndefined]

Statuses ==
    {"ok", "warning", "error", "busy", "indexing", "ready", "okEmpty", "warningBusy",
     "errorBusy", "errorQuiet"}

VARIABLES
    client,                  \* Ctx.client: 0 is null, else the committed client
    config,                  \* Ctx.config: 0 is null, else the held snapshot
    statusBarState,          \* Ctx.statusBarState
    lspStatus,               \* Ctx.lspStatus
    subscriptions,           \* clients pushed to context.subscriptions
    calls,                   \* in-flight invocations: position and locals
    built,                   \* number of clients constructed so far
    libState,                \* per client: state inside the client library
    bringup,                 \* per client: the promise of client.start()
    stopRequests,            \* per client: number of client.stop() calls
    stateListener,           \* per client: onDidChangeState subscription
    statusListener,          \* per client: onNotification subscription
    cfgSent,                 \* per client: configuration last delivered
    traceSet,                \* per client: trace verbosity last set
    registry,                \* registerCommands: "none", "live", "disposed"
    installCommandDisposable,\* registerCommands: the closure variable is non-null
    liveRegistrations,       \* host: live registrations of the install command
    doubleDispose,           \* host: a registration was disposed twice
    emitted,                 \* payloads fired by stateEmitter in the last step
    delivered,               \* what a subscriber saw at each of these deliveries
    notices,                 \* error notices shown to the user in the last step
    inv,                     \* the invocation made in the last step
    ret,                     \* the return made in the last step
    mw,                      \* executeCommand middleware: invocations in flight
    mwRet,                   \* executeCommand middleware: the return made in the last step
    hc,                      \* command handlers of registerCommands: invocations in flight
    hcRet,                   \* command handlers: the return made in the last step
    raw,                     \* settings: the raw configuration read from the host
    env,                     \* settings: the environment the last normalization used
    snapshot,                \* settings: the configuration snapshot
    prev,                    \* settings: the snapshot before the last normalization
    passes,                  \* settings: number of normalizations applied to raw
    serverPath,              \* bootstrap: the last resolveServerPath call and its result
    options,                 \* client: the options clientOptions built last
    capabilities,            \* client: the last handshake the capability set was put in
    statusBar,               \* Ctx.statusBar: text, tooltip, command, visibility
    activeEditor             \* host: language of the focused document

vars == <<client, config, statusBarState, lspStatus,
          subscriptions, calls, built, libState, bringup, stopRequests,
          stateListener, statusListener, cfgSent, traceSet, registry,
          installCommandDisposable, liveRegistrations, doubleDispose,
          emitted, delivered, notices, inv, ret, mw, mwRet, hc, hcRet,
          raw, env, snapshot, prev, passes, serverPath, options, capabilities,
          statusBar, activeEditor>>

\* met: 0 while no other invocation has overlapped this one; 1 once stop()/dispose()
\* was invoked while this start() alone was in flight, waiting for bring-up; 2 once
\* anything else was requested besides, or when others were in flight at invocation.
IdleCall ==
    [op |-> "none", pc |-> "idle", cl |-> 0, cfg |-> 0, so |-> 0, uc |-> 0, err |-> "none",
     met |-> 0]
NoInv == [proc |-> 0, op |-> "none", arg |-> 0, committed |-> 0]
NoRet == [proc |-> 0, op |-> "none", outcome |-> "none", cl |-> 0, failedAt |-> "none", note |-> "none", met |-> 0]

\* The whole state as a record, with the per-step observations cleared.
Cur ==
    [client |-> client, config |-> config, statusBarState |-> statusBarState,
     lspStatus |-> lspStatus,
     subscriptions |-> subscriptions, calls |-> calls, built |-> built,
     libState |-> libState, bringup |-> bringup, stopRequests |-> stopRequests,
     stateListener |-> stateListener, statusListener |-> statusListener,
     cfgSent |-> cfgSent, traceSet |-> traceSet, registry |-> registry,
     installCommandDisposable |-> installCommandDisposable,
     liveRegistrations |-> liveRegistrations, doubleDispose |-> doubleDispose,
     statusBar |-> statusBar, activeEditor |-> activeEditor,
     emitted |-> <<>>, delivered |-> <<>>, notices |-> <<>>, inv |-> NoInv, ret |-> NoRet]

\* F applied to the value of v, which is evaluated once.
Once(v, F(_)) == CHOOSE r \in {F(t) : t \in {v}} : TRUE

Set(s) ==
  \E t \in {s} :
    /\ client' = t.client
    /\ config' = t.config
    /\ statusBarState' = t.statusBarState
    /\ lspStatus' = t.lspStatus
    /\ subscriptions' = t.subscriptions
    /\ calls' = t.calls
    /\ built' = t.built
    /\ libState' = t.libState
    /\ bringup' = t.bringup
    /\ stopRequests' = t.stopRequests
    /\ stateListener' = t.stateListener
    /\ statusListener' = t.statusListener
    /\ cfgSent' = t.cfgSent
    /\ traceSet' = t.traceSet
    /\ registry' = t.registry
    /\ installCommandDisposable' = t.installCommandDisposable
    /\ liveRegistrations' = t.liveRegistrations
    /\ doubleDispose' = t.doubleDispose
    /\ emitted' = t.emitted
    /\ delivered' = t.delivered
    /\ notices' = t.notices
    /\ inv' = t.inv
    /\ ret' = t.ret
    /\ statusBar' = t.statusBar
    /\ activeEditor' = t.activeEditor
    /\ UNCHANGED <<mw, mwRet, hc, hcRet, raw, env, snapshot, prev, passes, serverPath,
                   options, capabilities>>

\* TRACE_LEVELS[config.trace.server]: the snapshots differ in their verbosity.
TraceOf(cfg) == IF cfg = 1 THEN "off" ELSE IF cfg = 2 THEN "messages" ELSE "verbose"

\* config.initializeStopped: the second snapshot has the flag set.
InitializeStopped(cfg) == cfg = 2

\* ---- command registry (registerCommands) ----

\* Mutant: registers without looking at installCommandDisposable.
RegisterInstallCommandUnguarded(s) ==
    [s EXCEPT !.installCommandDisposable = TRUE, !.liveRegistrations = @ + 1]

RegisterInstallCommand(s) ==
    IF s.installCommandDisposable
    THEN s
    ELSE [s EXCEPT !.installCommandDisposable = TRUE,
                   !.liveRegistrations = @ + 1]

UnregisterInstallCommand(s) ==
    IF ~s.installCommandDisposable
    THEN s
    ELSE [s EXCEPT !.installCommandDisposable = FALSE,
                   !.doubleDispose = @ \/ (s.liveRegistrations = 0),
                   !.liveRegistrations = IF @ > 0 THEN @ - 1 ELSE 0]

\* Mutant: the error state is not treated as eligible.
SyncInstallCommandStoppedOnly(s, state) ==
    IF state = "stopped"
    THEN RegisterInstallCommand(s)
    ELSE UnregisterInstallCommand(s)

SyncInstallCommand(s, state) ==
    IF state = "stopped" \/ state = "error"
    THEN RegisterInstallCommand(s)
    ELSE UnregisterInstallCommand(s)

\* stateEmitter.fire(state): the registry's listener runs synchronously.
Fire(s, state) ==
    Once(s, LAMBDA t :
        LET s1 == [t EXCEPT !.emitted = Append(@, state),
                            !.delivered = Append(@, [payload |-> state,
                                                     state |-> t.statusBarState,
                                                     health |-> t.lspStatus])]
        IN IF s1.registry = "live" THEN SyncInstallCommand(s1, state) ELSE s1)

\* ---- Ctx: status ----

UpdateStatusBarVisibility(s, languageId) ==
    [s EXCEPT !.statusBar.visible = ShouldShowStatusBar(ShowOf(s.config), languageId)]

\* The editor passed is vscode.window.activeTextEditor.
ApplyStatusBarConfig(s) ==
    Once(s, LAMBDA t :
        UpdateStatusBarVisibility(
            [t EXCEPT !.statusBar.command = StatusBarCommand(ClickActionOf(t.config))],
            t.activeEditor))

RenderedText(state, status) ==
    CASE state = "starting" -> "$(sync~spin) solidity-analyzer"
      [] state = "error" -> "$(error) solidity-analyzer"
      [] state = "stopped" -> "$(circle-slash) solidity-analyzer"
      [] OTHER ->
            IF status = NoStatus
            THEN "$(check) solidity-analyzer"
            ELSE LET params == StatusParams(status)
                     message == IF Truthy(params.message) THEN params.message.val ELSE "OK"
                     icon == IF params.health = "error" THEN "$(error)"
                             ELSE IF params.health = "warning" THEN "$(warning)"
                             ELSE IF params.quiescent THEN "$(check)"
                             ELSE "$(sync~spin)"
                 IN icon \o " solidity-analyzer: " \o message

RenderedTooltip(state, status) ==
    CASE state = "starting" -> "solidity-analyzer is starting."
      [] state = "error" -> "solidity-analyzer encountered an error."
      [] state = "stopped" -> "solidity-analyzer is stopped."
      [] OTHER ->
            IF status = NoStatus
            THEN "solidity-analyzer is running."
            ELSE LET params == StatusParams(status)
                 IN "solidity-analyzer: "
                    \o (IF Truthy(params.message) THEN params.message.val ELSE "OK")

RenderStatusBar(s) ==
    Once(s, LAMBDA t :
        ApplyStatusBarConfig([t EXCEPT !.statusBar.text = RenderedText(t.statusBarState, t.lspStatus),
                                       !.statusBar.tooltip =
                                          RenderedTooltip(t.statusBarState, t.lspStatus)]))

\* Mutant: the event is fired before the fields are assigned.
UpdateStatusBarStateFireFirst(s, state) ==
    RenderStatusBar([Fire(s, state) EXCEPT
                        !.statusBarState = state,
                        !.lspStatus = IF state # "running" THEN NoStatus ELSE @])

UpdateStatusBarState(s, state) ==
    Fire(RenderStatusBar([s EXCEPT !.statusBarState = state,
                                   !.lspStatus = IF state # "running" THEN NoStatus ELSE @]),
         state)

\* Mutant: the notification is stored and the item is left as it was.
UpdateServerStatusNoRender(s, status) == [s EXCEPT !.lspStatus = status]

UpdateServerStatus(s, status) == RenderStatusBar([s EXCEPT !.lspStatus = status])

\* Mutant: a client that failed to start is reported as an error of the session.
OnDidChangeStateFailedAsError(s, c, newState) ==
    IF s.stateListener[c] = "live"
    THEN UpdateStatusBarState(s, IF s.libState[c] = "startFailed" THEN "error" ELSE newState)
    ELSE s

\* The listener start() attaches with client.onDidChangeState.
OnDidChangeState(s, c, newState) ==
    IF s.stateListener[c] = "live" THEN UpdateStatusBarState(s, newState) ELSE s

\* ---- the client library, as Ctx calls it ----

\* client.start(): the client turns Starting at once and reports it.
ClientStartCall(s, c) ==
    OnDidChangeState([s EXCEPT !.libState[c] = "starting", !.bringup[c] = "pending"],
                     c, "starting")

\* client.stop(): a running client turns Stopping (public state Stopped) at once.
ClientStopCall(s, c) ==
    LET s1 == [s EXCEPT !.stopRequests[c] = IF @ < 2 THEN @ + 1 ELSE @]
    IN IF s.libState[c] = "running"
       THEN OnDidChangeState([s1 EXCEPT !.libState[c] = "stopping"], c, "stopped")
       ELSE s1

\* The promise of client.stop() settles: a stopping client is stopped.
ClientStopSettled(s, c) ==
    IF s.libState[c] = "stopping" THEN [s EXCEPT !.libState[c] = "stopped"] ELSE s

\* client.setTrace(level)
ClientSetTrace(s, c, cfg) == [s EXCEPT !.traceSet[c] = TraceOf(cfg)]


\* ---- Ctx: invocations ----

InFlight(s) == {q \in Procs : s.calls[q].pc # "idle"}

\* A new invocation takes the lowest free slot.
FreeSlot(p) ==
    /\ calls[p].pc = "idle"
    /\ \A q \in Procs : q < p => calls[q].pc # "idle"

\* start() invocations that have not built their client yet.
PendingBuilds(s) ==
    {q \in Procs : /\ s.calls[q].op \in {"start", "restart", "install", "activate"}
                   /\ s.calls[q].pc \in {"s_load", "s_update", "s_create", "t_wait", "r_stopped",
                                        "i_entry", "a_load"}}

CanBuild(s) == s.built + Cardinality(PendingBuilds(s)) < MaxClients

\* The invocation of op meets q, the only invocation in flight: a start() waiting
\* for bring-up, which no stop() has met before.
MeetsPendingStart(s, q, op) ==
    /\ op \in {"stop", "dispose"}
    /\ InFlight(s) = {q}
    /\ s.calls[q].pc = "s_bringup"
    /\ s.calls[q].met = 0

Invoke(s, p, op, arg) ==
    [s EXCEPT !.calls = [q \in Procs |->
                            IF q = p
                            THEN [IdleCall EXCEPT !.op = op,
                                                  !.met = IF InFlight(s) = {} THEN 0 ELSE 2]
                            ELSE IF s.calls[q].pc = "idle" THEN s.calls[q]
                            ELSE [s.calls[q] EXCEPT !.met = IF MeetsPendingStart(s, q, op)
                                                           THEN 1 ELSE 2]],
              !.inv = [proc |-> p, op |-> op, arg |-> arg, committed |-> s.client]]

Return(s, p, outcome, note) ==
    [s EXCEPT !.calls[p] = IdleCall,
              !.ret = [proc |-> p, op |-> s.calls[p].op, outcome |-> outcome,
                       cl |-> s.calls[p].cl, failedAt |-> s.calls[p].err,
                       note |-> note, met |-> s.calls[p].met]]

\* ---- Ctx.updateConfig ----

\* Up to the await: replace the snapshot; with a committed client, call setTrace.
UpdateConfigSync(s, p, cfg) ==
    LET s1 == ApplyStatusBarConfig([s EXCEPT !.config = cfg, !.calls[p].cfg = cfg,
                                             !.calls[p].uc = 0])
    IN IF s1.client # 0
       THEN [ClientSetTrace(s1, s1.client, cfg) EXCEPT !.calls[p].uc = s1.client]
       ELSE s1

\* After the await: setTrace rejected, or this.client is null by now.
UpdateConfigFails(s, p, ok) == s.calls[p].uc # 0 /\ (~ok \/ s.client = 0)

\* this.client.sendNotification(DidChangeConfigurationNotification, ...)
UpdateConfigNotify(s, p) ==
    IF s.calls[p].uc # 0 /\ s.client # 0
    THEN [s EXCEPT !.cfgSent[s.client] = s.calls[p].cfg]
    ELSE s

UpdateConfigEnter(s, p, cfg) ==
    LET s1 == UpdateConfigSync(s, p, cfg)
    IN IF s1.calls[p].uc = 0
       THEN Return(s1, p, "ok", "held")
       ELSE [s1 EXCEPT !.calls[p].pc = "u_trace"]

\* A failure is the rejection of setTrace or, when setTrace resolved, the
\* TypeError of this.client.sendNotification on a null this.client.
UpdateConfigResume(s, p, ok) ==
    IF UpdateConfigFails(s, p, ok)
    THEN Return([s EXCEPT !.calls[p].err = "update"], p, "threw",
                IF ok THEN "clientGone" ELSE "none")
    ELSE Return(UpdateConfigNotify(s, p), p, "ok", "notified")

\* ---- activate: the onDidChangeConfiguration handler ----

\* Mutant: the handler has no catch, the failure reaches the host.
HandlerCatchRethrows(s, p, why) ==
    Return([s EXCEPT !.calls[p].err = why], p, "threw", "none")

\* catch (error): console.error and showErrorMessage, nothing rethrown.
HandlerCatch(s, p, why) ==
    Return([s EXCEPT !.calls[p].err = why,
                     !.notices = Append(@, "Failed to update configuration")],
           p, "ok", "noticed")

\* Up to the await of loadConfig(); relevant is ctx && event.affectsConfiguration(...).
ConfigChangedEnter(s, p, relevant) ==
    IF relevant THEN [s EXCEPT !.calls[p].pc = "h_load"] ELSE Return(s, p, "ok", "ignored")

\* loadConfig() settled (r = 0 is a rejection); then ctx.updateConfig up to its await.
ConfigLoadedStep(s, p, r) ==
    IF r = 0
    THEN HandlerCatch(s, p, "load")
    ELSE LET s1 == UpdateConfigSync(s, p, r)
         IN IF s1.calls[p].uc = 0
            THEN Return(s1, p, "ok", "held")
            ELSE [s1 EXCEPT !.calls[p].pc = "h_trace"]

\* setTrace settled inside ctx.updateConfig.
ConfigTracedStep(s, p, ok) ==
    IF UpdateConfigFails(s, p, ok)
    THEN HandlerCatch(s, p, IF ok THEN "clientGone" ELSE "update")
    ELSE Return(UpdateConfigNotify(s, p), p, "ok", "notified")

\* ---- Ctx.stop, restart, dispose ----

\* What follows stop() in the operation that called it.
AfterStop(s, p, note) ==
    CASE s.calls[p].op = "stop" -> Return(s, p, "ok", note)
      [] s.calls[p].op = "restart" -> [s EXCEPT !.calls[p].pc = "r_stopped", !.calls[p].cl = 0]
      [] OTHER -> [s EXCEPT !.calls[p].pc = "d_stopped", !.calls[p].cl = 0]

\* Mutant: stop() with no committed client returns without touching the state.
StopIdleSilent(s, p) == AfterStop(s, p, "noop")

\* stop() with no committed client.
StopIdle(s, p) == AfterStop(UpdateStatusBarState(s, "stopped"), p, "noop")

\* Mutant: the committed reference is not cleared before the await.
StopCommittedLateClear(s, p) ==
    LET c == s.client
    IN [ClientStopCall([s EXCEPT !.calls[p].cl = c], c) EXCEPT !.calls[p].pc = "t_wait"]

\* Mutant: restart() does not wait for the shutdown it requested.
StopCommittedNoWait(s, p) ==
    LET c == s.client
        s1 == ClientStopCall([s EXCEPT !.client = 0, !.calls[p].cl = c], c)
    IN IF s.calls[p].op = "restart"
       THEN AfterStop(s1, p, "stopped")
       ELSE [s1 EXCEPT !.calls[p].pc = "t_wait"]

\* stop() with a committed client, up to the await.
StopCommitted(s, p) ==
    LET c == s.client
    IN [ClientStopCall([s EXCEPT !.client = 0, !.calls[p].cl = c], c)
          EXCEPT !.calls[p].pc = "t_wait"]

\* Mutant: with no committed client, the client built last is shut down again.
StopSyncShutsDownAgain(s, p) ==
    IF s.client # 0
    THEN StopCommitted(s, p)
    ELSE IF s.built = 0
         THEN StopIdle(s, p)
         ELSE StopIdle(ClientStopCall(s, s.built), p)

StopSync(s, p) == IF s.client = 0 THEN StopIdle(s, p) ELSE StopCommitted(s, p)

\* client.stop() settled: the catch logs, the finally sets stopped.
StopSettledStep(s, p, ok) ==
    AfterStop(UpdateStatusBarState(ClientStopSettled(s, s.calls[p].cl), "stopped"),
              p, IF ok THEN "stopped" ELSE "shutdownFailed")

\* dispose() after its stop(): the finally block disposes the two output channels,
\* host objects that no operation of Ctx reads back.
\* In the catch block of activate, the error is rethrown after it.
DisposeFinish(s, p) ==
    IF s.calls[p].op = "activate"
    THEN Return(s, p, "threw", "activationFailed")
    ELSE Return(s, p, "ok", "disposed")

\* ---- registerInstallCommand: the fallback handler, run on Ctx ----

\* After `await ctx.start()` in the fallback: a failure goes to handleCommandError
\* (console.error, showErrorMessage); otherwise the handler asks the host to execute
\* the install command id, and the host dispatches to the registration of that id:
\* the registry's own while it is live (the handler is entered again, i_entry), the
\* one of the server otherwise.
InstallAfterStart(s, p, outcome) ==
    IF outcome = "threw"
    THEN [s EXCEPT !.calls[p].pc = "i_notice",
                   !.notices = Append(@, "Failed to install solc")]
    ELSE IF s.liveRegistrations > 0
         THEN [s EXCEPT !.calls[p] = [IdleCall EXCEPT !.op = "install", !.pc = "i_entry",
                                                      !.met = s.calls[p].met]]
         ELSE [s EXCEPT !.calls[p].pc = "i_forward"]

\* The forwarded command settled: a rejection goes to handleCommandError.
InstallForwardedStep(s, p, ok) ==
    IF ok
    THEN Return(s, p, "ok", "forwarded")
    ELSE [s EXCEPT !.calls[p].pc = "i_notice",
                   !.calls[p].err = "forward",
                   !.notices = Append(@, "Failed to install solc")]

\* showErrorMessage resolved (with "Open Logs", ctx.showLogs() shows the channels).
InstallAnsweredStep(s, p) == Return(s, p, "ok", "noticed")

\* ---- activate ----

\* registerCommands(ctx, context): the first syncInstallCommand and the listener.
RegisterCommandsStep(s) == SyncInstallCommand([s EXCEPT !.registry = "live"], s.statusBarState)

\* Mutant: the commands are registered before start() is awaited, and stay.
ActivateAfterStartKeepsCommands(s, p, outcome) ==
    IF outcome = "threw"
    THEN StopSync(RegisterCommandsStep(s), p)
    ELSE Return(RegisterCommandsStep(s), p, "ok", "activated")

\* After `await ctx.start(config)` in activate: registerCommands and the settings
\* listener; in the catch block commandDisposable is still null, ctx.dispose() is
\* awaited (here up to the await of its stop()).
ActivateAfterStart(s, p, outcome) ==
    IF outcome = "threw"
    THEN StopSync(s, p)
    ELSE Return(RegisterCommandsStep(s), p, "ok", "activated")

\* loadConfig() settled in activate: a rejection is rethrown (there is no Ctx to
\* dispose); with the flag set the commands are registered at once; otherwise
\* ctx.start(config) is called.
ActivateLoadedStep(s, p, r) ==
    IF r = 0
    THEN Return([s EXCEPT !.calls[p].err = "load"], p, "threw", "activationFailed")
    ELSE IF InitializeStopped(r)
         THEN Return(RegisterCommandsStep(s), p, "ok", "activatedStopped")
         ELSE [s EXCEPT !.calls[p].pc = "a_start", !.calls[p].cfg = r]

\* What follows start() in the operation that called it.
AfterStart(s, p, outcome, note) ==
    CASE s.calls[p].op = "install" -> InstallAfterStart(s, p, outcome)
      [] s.calls[p].op = "activate" -> ActivateAfterStart(s, p, outcome)
      [] OTHER -> Return(s, p, outcome, note)

\* ---- Ctx.start ----

\* Mutant: the catch block rethrows without entering error.
StartFailNoError(s, p) == AfterStart([s EXCEPT !.client = 0], p, "threw", "none")

\* The end of the catch block: this.client = null, enter error, rethrow.
StartFail(s, p) ==
    AfterStart(UpdateStatusBarState([s EXCEPT !.client = 0], "error"), p, "threw", "none")

\* The catch block up to its await.
StartCatch(s, p, at) ==
    LET c == s.calls[p].cl
        s0 == [s EXCEPT !.calls[p].err = at]
        s1 == IF c # 0 /\ s0.client = 0
              THEN [s0 EXCEPT !.stateListener[c] = "disposed",
                              !.statusListener[c] = "disposed"]
              ELSE s0
    IN IF c # 0 /\ s1.client = 0
       THEN [ClientStopCall(s1, c) EXCEPT !.calls[p].pc = "s_cleanup"]
       ELSE StartFail(s1, p)

\* Mutant: start() has no early return.
AlreadyStartedNever(s) == FALSE

\* Whether start() treats the session as already started.
AlreadyStarted(s) == s.client # 0

\* start() up to its first await.
StartSync(s, p, override) ==
    IF AlreadyStarted(s)
    THEN AfterStart(s, p, "ok", "noop")
    ELSE IF override = 0 /\ s.config = 0
         THEN [s EXCEPT !.calls[p].pc = "s_load"]
         ELSE [UpdateConfigSync(s, p, IF override # 0 THEN override ELSE s.config)
                 EXCEPT !.calls[p].pc = "s_update"]

\* loadConfig() settled: r = 0 is a rejection.
StartLoadedStep(s, p, r) ==
    IF r = 0
    THEN StartCatch(s, p, "load")
    ELSE [UpdateConfigSync(s, p, r) EXCEPT !.calls[p].pc = "s_update"]

\* updateConfig(config) settled; then enter starting, make the server options
\* (so: the snapshot createServerOptions is given) and ask for a client.
StartUpdatedStep(s, p, ok) ==
    IF UpdateConfigFails(s, p, ok)
    THEN StartCatch(s, p, "update")
    ELSE [UpdateStatusBarState(UpdateConfigNotify(s, p), "starting")
            EXCEPT !.calls[p].pc = "s_create", !.calls[p].uc = 0,
                   !.calls[p].so = s.calls[p].cfg]

\* Mutant: client.start() is not awaited.
BroughtUpOrPending(s, p) == s.bringup[s.calls[p].cl] \in {"ok", "pending"}

\* await client.start() has resolved.
BroughtUp(s, p) == s.bringup[s.calls[p].cl] = "ok"

\* createLanguageClient(config, serverOptions, ...) settled; subscribe and call
\* client.start().
StartCreatedStep(s, p, ok) ==
    IF ~ok
    THEN StartCatch(s, p, "create")
    ELSE LET c == s.built + 1
             s1 == [s EXCEPT !.built = c,
                             !.libState[c] = "initial",
                             !.cfgSent[c] = s.calls[p].cfg,
                             !.stateListener[c] = "live",
                             !.statusListener[c] = "live",
                             !.calls[p].cl = c,
                             !.calls[p].pc = "s_bringup"]
         IN ClientStartCall(s1, c)

\* Mutant: the verbosity set after the commit is read from the held snapshot.
StartCommitStepHeldSnapshot(s, p) ==
    LET c == s.calls[p].cl
        s1 == [s EXCEPT !.client = c,
                        !.subscriptions = @ \cup {c},
                        !.calls[p].pc = "s_trace"]
    IN ClientSetTrace(s1, c, s.config)

\* client.start() resolved: commit, push the subscriptions, call setTrace.
StartCommitStep(s, p) ==
    LET c == s.calls[p].cl
        s1 == [s EXCEPT !.client = c,
                        !.subscriptions = @ \cup {c},
                        !.calls[p].pc = "s_trace"]
    IN ClientSetTrace(s1, c, s.calls[p].cfg)

\* setTrace settled.
StartTracedStep(s, p, ok) ==
    IF ok THEN AfterStart(s, p, "ok", "started") ELSE StartCatch(s, p, "trace")

\* The cleanup client.stop() settled (its failure is ignored).
StartCleanedStep(s, p) == StartFail(ClientStopSettled(s, s.calls[p].cl), p)

\* ---- createExecuteCommandMiddleware ----

InstallCommandId == "solidity-analyzer.installFoundrySolc"
CommandIds == {InstallCommandId, "solidity-analyzer.indexedFiles"}
ArgLists == {"none", "0.8.26"}

\* What the forwarded call resolves to, and what a dependency may throw.
Undefined == [type |-> "undefined", text |-> ""]
Results == {Undefined, [type |-> "string", text |-> ""],
            [type |-> "string", text |-> "installed solc"]}
NoThrown == [kind |-> "none", message |-> "", str |-> ""]
Thrown == {[kind |-> "Error", message |-> "spawn ENOENT", str |-> "Error: spawn ENOENT"],
           [kind |-> "string", message |-> "", str |-> "cancelled"]}

\* settled: what the forwarded call (next) settled with, Pending before that.
Pending == [type |-> "pending", text |-> ""]
IdleMw == [pc |-> "idle", command |-> "", args |-> "", did |-> <<>>,
           result |-> Undefined, error |-> NoThrown, settled |-> Pending]
NoMwRet == [proc |-> 0, command |-> "", args |-> "", outcome |-> "none",
            value |-> Undefined, did |-> <<>>, error |-> NoThrown, settled |-> Pending]

\* A promise settled with r: rejected with a thrown value, or resolved.
Rejected(r) == "kind" \in DOMAIN r /\ r.kind # "none"

\* One call of a dependency (deps.ensureStarted, deps.progress.*, deps.log) or of next.
Dep(call, text, arg) == [call |-> call, text |-> text, arg |-> arg]

\* error instanceof Error ? error.message : String(error)
Details(e) == IF e.kind = "Error" THEN e.message ELSE e.str

\* typeof result === "string" && result.length > 0
IsNonEmptyString(r) == r.type = "string" /\ r.text # ""

MwReturn(m, p, outcome, value) ==
    [proc |-> p, command |-> m.command, args |-> m.args, outcome |-> outcome,
     value |-> value, did |-> m.did, error |-> m.error, settled |-> m.settled]

\* Mutant: every command is intercepted, not only the install command.
MwEnterEveryCommand(command, args) ==
    [IdleMw EXCEPT !.command = command, !.args = args,
                   !.pc = "m_ensure", !.did = <<Dep("ensureStarted", "", "")>>]

\* Mutant: the catch block logs and rethrows.
MwCatchRethrows(m, e) ==
    [m EXCEPT !.pc = "m_rethrow",
              !.did = @ \o <<Dep("log", "solidity-analyzer: Failed to install solc", e.str)>>]

\* catch (error): log, then showErrorMessage up to its await.
MwCatch(m, e) ==
    [m EXCEPT !.pc = "m_error",
              !.did = @ \o <<Dep("log", "solidity-analyzer: Failed to install solc", e.str),
                              Dep("showErrorMessage",
                                  "solidity-analyzer: Failed to install solc. ", Details(e))>>]

\* executeCommand up to its first await.
MwEnter(command, args) ==
    LET m == [IdleMw EXCEPT !.command = command, !.args = args]
    IN IF command # InstallCommandId
       THEN [m EXCEPT !.pc = "m_forward", !.did = <<Dep("next", command, args)>>]
       ELSE [m EXCEPT !.pc = "m_ensure", !.did = <<Dep("ensureStarted", "", "")>>]

\* deps.ensureStarted() settled.
MwEnsuredStep(m, r) ==
    IF Rejected(r)
    THEN MwCatch([m EXCEPT !.error = r], r)
    ELSE [m EXCEPT !.pc = "m_next",
                   !.did = @ \o <<Dep("withProgress", "solidity-analyzer: Installing solc", ""),
                                   Dep("next", m.command, m.args)>>]

\* return next(command, args): the promise of next is the promise of the call.
MwForwardStep(m, r) ==
    IF Rejected(r)
    THEN [m EXCEPT !.pc = "m_rethrow", !.error = r]
    ELSE [m EXCEPT !.pc = "m_done", !.result = r]

\* Mutant: the notice is shown for every string, the empty one included.
MwNextStepAnyString(m, r) ==
    IF Rejected(r)
    THEN MwCatch([m EXCEPT !.error = r], r)
    ELSE IF r.type = "string"
         THEN [m EXCEPT !.pc = "m_info", !.result = r,
                        !.did = @ \o <<Dep("showInformationMessage", r.text, "")>>]
         ELSE [m EXCEPT !.pc = "m_done", !.result = r]

\* withProgress(..., () => next(command, args)) settled.
MwNextStep(m, r) ==
    IF Rejected(r)
    THEN MwCatch([m EXCEPT !.error = r], r)
    ELSE IF IsNonEmptyString(r)
         THEN [m EXCEPT !.pc = "m_info", !.result = r,
                        !.did = @ \o <<Dep("showInformationMessage", r.text, "")>>]
         ELSE [m EXCEPT !.pc = "m_done", !.result = r]

\* ---- actions: the executeCommand middleware ----

\* The two notices are host calls; their promises are taken to resolve.
MwFree(p) ==
    /\ mw[p].pc = "idle"
    /\ \A q \in Procs : q < p => mw[q].pc # "idle"

MwUnchanged ==
    UNCHANGED <<client, config, statusBarState, lspStatus, subscriptions, calls, built,
                libState, bringup, stopRequests, stateListener, statusListener, cfgSent,
                traceSet, registry, installCommandDisposable, liveRegistrations,
                doubleDispose, emitted, delivered, notices, inv, ret, hc, hcRet,
                raw, env, snapshot, prev, passes, serverPath, options, capabilities,
                statusBar, activeEditor>>

MwStep(p, m) ==
    /\ mw' = [mw EXCEPT ![p] = IF m.pc \in {"m_done", "m_rethrow"} THEN IdleMw ELSE m]
    /\ mwRet' = IF m.pc = "m_done" THEN MwReturn(m, p, "returned", m.result)
                ELSE IF m.pc = "m_rethrow" THEN MwReturn(m, p, "threw", m.error)
                ELSE NoMwRet
    /\ MwUnchanged

ExecuteCommand(p, command, args) ==
    /\ MwFree(p)
    /\ MwStep(p, MwEnter(command, args))

\* return next(command, args): the outcome of next is the outcome of the call.
MwForwarded(p, r) ==
    /\ mw[p].pc = "m_forward"
    /\ MwStep(p, MwForwardStep([mw[p] EXCEPT !.settled = r], r))

MwEnsured(p, r) ==
    /\ mw[p].pc = "m_ensure"
    /\ MwStep(p, MwEnsuredStep(mw[p], r))

MwNextDone(p, r) ==
    /\ mw[p].pc = "m_next"
    /\ MwStep(p, MwNextStep([mw[p] EXCEPT !.settled = r], r))

\* showInformationMessage resolved: return result.
MwInfoShown(p) ==
    /\ mw[p].pc = "m_info"
    /\ MwStep(p, [mw[p] EXCEPT !.pc = "m_done"])

\* showErrorMessage resolved: return undefined.
MwErrorShown(p) ==
    /\ mw[p].pc = "m_error"
    /\ MwStep(p, [mw[p] EXCEPT !.pc = "m_done", !.result = Undefined])



NoSnapshot == [normalized |-> FALSE]
NoServerPath == [called |-> FALSE]
NoOptions == [built |-> FALSE]
NoCapabilities == [applied |-> FALSE]
NoEditor == "none"
BarConfigs == 1..Len(BarShows)

\* ---- settings: the inputs ----

MaxSections == 2
MaxPasses == 2

\* A value of server.extraEnv is written as literal text and placeholders.
Lit(t) == [placeholder |-> FALSE, text |-> t]
Ph(name) == [placeholder |-> TRUE, text |-> name]

Placeholder(name) == EnvPrefix \o name \o <<"}">>

RECURSIVE Flatten(_)
Flatten(parts) ==
    IF parts = <<>> THEN <<>>
    ELSE (IF Head(parts).placeholder THEN Placeholder(Head(parts).text) ELSE Head(parts).text)
         \o Flatten(Tail(parts))

RawParts ==
    {<<>>,
     <<Lit(<<"t", "r", "a", "c", "e">>)>>,
     <<Ph(<<"X">>)>>,
     <<Lit(<<"d", "e", "b", "u", "g", "-">>), Ph(<<"S", "A">>), Lit(<<"-", "1">>)>>,
     <<Ph(<<"X">>), Ph(<<"Y">>)>>,
     <<Ph(<<"U">>), Lit(<<"a">>)>>,
     <<Lit(<<"$", "{", "e", "n", "v", ":", "}">>), Ph(<<"X">>)>>,
     <<Lit(<<"$">>), Ph(<<"Y">>)>>,
     <<Ph(<<"D">>), Lit(<<"{", "e", "n", "v", ":", "X", "}">>)>>,
     <<Lit(<<"$", "{", "e", "n", "v", ":", "X">>)>>,
     <<Ph(<<"X">>), Lit(<<"}">>)>>}

RawTexts == {JsString(Flatten(parts)) : parts \in RawParts}

\* process.env: X and Y hold placeholder text in the second one.
Envs ==
    {EmptyEnv,
     (<<"X">> :> <<"v">>) @@ (<<"Y">> :> <<"w">>) @@ (<<"S", "A">> :> <<"f", "a", "s", "t">>),
     (<<"X">> :> Placeholder(<<"Y">>)) @@ (<<"Y">> :> <<"w">>) @@ (<<"D">> :> <<"$">>)}

RawBools == {JsUndefined, JsNull, JsBool(TRUE), JsBool(FALSE)}

RawExtraEnvs ==
    {JsUndefined, JsNull, JsObject(EmptyExtraEnv)}
    \cup {JsObject("A" :> v) : v \in RawTexts \cup {JsNull, JsUndefined}}
    \cup {JsObject(("A" :> v) @@ ("B" :> JsString(<<"t", "r", "a", "c", "e">>))) :
            v \in {JsString(Placeholder(<<"X">>)), JsNull}}

RawPaths == {JsUndefined, JsNull, JsString(""), JsString("/bin/sa")}

SectionOrder ==
    <<"server", "trace", "statusBar", "completion", "hover", "signatureHelp", "rename",
      "references", "diagnostics", "format", "lint", "toolchain", "initializeStopped">>

SectionValues(section) ==
    CASE section = "server" ->
            {JsObject([path |-> p, extraEnv |-> x]) : p \in RawPaths, x \in RawExtraEnvs}
      [] section = "trace" ->
            {JsObject([server |-> v]) :
               v \in {JsUndefined, JsNull, JsString("off"), JsString("verbose")}}
      [] section = "statusBar" ->
            {JsObject([show |-> v, clickAction |-> w]) :
               v \in {JsUndefined, JsNull, JsString("always"), JsString("never"),
                      JsString("whenActive")},
               w \in {JsUndefined, JsNull, JsString("openLogs"), JsString("restartServer")}}
      [] section \in {"completion", "hover", "signatureHelp", "rename", "references"} ->
            {JsObject([enable |-> b]) : b \in RawBools}
      [] section = "diagnostics" ->
            {JsObject([enable |-> a, onSave |-> b, onChange |-> c]) :
               a \in RawBools, b \in RawBools, c \in RawBools}
      [] section = "format" ->
            {JsObject([enable |-> a, onSave |-> b]) : a \in RawBools, b \in RawBools}
      [] section = "lint" ->
            {JsObject([enable |-> a, onSave |-> b, fixOnSave |-> c]) :
               a \in RawBools, b \in RawBools, c \in RawBools}
      [] section = "toolchain" -> {JsObject([promptInstall |-> b]) : b \in RawBools}
      [] OTHER -> RawBools \ {JsUndefined}

Present(r) == {i \in 1..Len(SectionOrder) : SectionOrder[i] \in DOMAIN r}

\* ---- registerCommands: the command handlers ----

OpenLogsId == "solidity-analyzer.openLogs"
ShowIndexedFilesId == "solidity-analyzer.showIndexedFiles"
IndexedFilesId == "solidity-analyzer.indexedFiles"

\* CLIENT_COMMANDS, and the fallback registered under the install command id.
HandledCommands ==
    {"solidity-analyzer.startServer", "solidity-analyzer.stopServer",
     "solidity-analyzer.restartServer", OpenLogsId, "solidity-analyzer.rename",
     "solidity-analyzer.findReferences", "solidity-analyzer.triggerSignatureHelp",
     "solidity-analyzer.formatDocument", "solidity-analyzer.formatSelection",
     "solidity-analyzer.runLint", "solidity-analyzer.fixAllLints",
     ShowIndexedFilesId, InstallCommandId}

\* The calls a handler awaits, in order (what showIndexedFiles does with the
\* result is added when the result is known).
Delegates(command) ==
    CASE command = "solidity-analyzer.startServer" -> <<"ctx.start">>
      [] command = "solidity-analyzer.stopServer" -> <<"ctx.stop">>
      [] command = "solidity-analyzer.restartServer" -> <<"ctx.restart">>
      [] command = OpenLogsId -> <<"ctx.showLogs">>
      [] command = "solidity-analyzer.rename" -> <<"editor.action.rename">>
      [] command = "solidity-analyzer.findReferences" -> <<"editor.action.referenceSearch.trigger">>
      [] command = "solidity-analyzer.triggerSignatureHelp" -> <<"editor.action.triggerParameterHints">>
      [] command = "solidity-analyzer.formatDocument" -> <<"editor.action.formatDocument">>
      [] command = "solidity-analyzer.formatSelection" -> <<"editor.action.formatSelection">>
      [] command = "solidity-analyzer.runLint" -> <<"editor.action.codeAction">>
      [] command = "solidity-analyzer.fixAllLints" -> <<"editor.action.codeAction">>
      [] command = ShowIndexedFilesId -> <<"ctx.start", IndexedFilesId>>
      [] OTHER -> <<"ctx.start", InstallCommandId>>

\* The actionLabel each handler passes to handleCommandError.
ActionLabel(command) ==
    CASE command = "solidity-analyzer.startServer" -> "start the server"
      [] command = "solidity-analyzer.stopServer" -> "stop the server"
      [] command = "solidity-analyzer.restartServer" -> "restart the server"
      [] command = "solidity-analyzer.rename" -> "trigger rename"
      [] command = "solidity-analyzer.findReferences" -> "find references"
      [] command = "solidity-analyzer.triggerSignatureHelp" -> "trigger signature help"
      [] command = "solidity-analyzer.formatDocument" -> "format the document"
      [] command = "solidity-analyzer.formatSelection" -> "format the selection"
      [] command = "solidity-analyzer.runLint" -> "run lint actions"
      [] command = "solidity-analyzer.fixAllLints" -> "apply lint fixes"
      [] command = ShowIndexedFilesId -> "show indexed files"
      [] command = InstallCommandId -> "install solc"
      [] OTHER -> "none"

\* Whether the body of the handler is inside try / catch.
HasCatch(command) == command # OpenLogsId

\* What executeCommand(indexedFiles) resolved to: not an array, an array without
\* strings, an array with strings.
FileLists == {"notArray", "empty", "some"}

IdleHc == [pc |-> "idle", command |-> "", plan |-> <<>>, did |-> <<>>, error |-> NoThrown,
           choice |-> "none"]
NoHcRet == [proc |-> 0, command |-> "", outcome |-> "none", did |-> <<>>,
            error |-> NoThrown, choice |-> "none"]

HcReturn(h, p, outcome) ==
    [proc |-> p, command |-> h.command, outcome |-> outcome, did |-> h.did,
     error |-> h.error, choice |-> h.choice]

\* handleCommandError up to its await: console.error, showErrorMessage(..., "Open Logs").
HandleCommandError(h, e) ==
    [h EXCEPT !.pc = "c_notice",
              !.did = @ \o <<Dep("console.error", ActionLabel(h.command), e.str),
                              [call |-> "showErrorMessage", text |-> ActionLabel(h.command),
                               arg |-> Details(e), items |-> <<"Open Logs">>]>>]

\* The handler is invoked; r is the outcome of ctx.showLogs() for openLogs, whose
\* handler calls it without await and without try / catch.
CmdEnter(command, r) ==
    LET h == [IdleHc EXCEPT !.command = command, !.plan = Delegates(command),
                            !.did = <<Dep(Head(Delegates(command)), "", "")>>]
    IN IF HasCatch(command)
       THEN [h EXCEPT !.pc = "c_wait"]
       ELSE IF Rejected(r)
            THEN [h EXCEPT !.pc = "c_rethrow", !.error = r]
            ELSE [h EXCEPT !.pc = "c_done"]

\* What showIndexedFiles awaits once it has the result.
AfterIndexedFiles(files) ==
    IF files = "some"
    THEN <<"openTextDocument", "showTextDocument">>
    ELSE <<"showInformationMessage">>

\* The awaited call settled with r.
CmdSettledStep(h, r, files) ==
    IF Rejected(r)
    THEN HandleCommandError([h EXCEPT !.error = r], r)
    ELSE LET rest == Tail(h.plan) \o (IF Head(h.plan) = IndexedFilesId
                                      THEN AfterIndexedFiles(files) ELSE <<>>)
         IN IF rest = <<>>
            THEN [h EXCEPT !.pc = "c_done", !.plan = rest]
            ELSE [h EXCEPT !.plan = rest, !.did = @ \o <<Dep(Head(rest), "", "")>>]

\* showErrorMessage resolved with the user's choice.
CmdAnsweredStep(h, choice) ==
    IF choice = "Open Logs"
    THEN [h EXCEPT !.pc = "c_done", !.choice = choice,
                   !.did = @ \o <<Dep("ctx.showLogs", "", "")>>]
    ELSE [h EXCEPT !.pc = "c_done", !.choice = choice]

\* ---- actions: the command handlers ----

\* The effect of ctx.start(), ctx.stop() and ctx.restart() on the session is that of
\* StartCall, StopCall and RestartCall; here the awaited call settles as the
\* environment decides. showErrorMessage and the showLogs() of handleCommandError
\* are taken to succeed.
HcFree(p) ==
    /\ hc[p].pc = "idle"
    /\ \A q \in Procs : q < p => hc[q].pc # "idle"

HcUnchanged ==
    UNCHANGED <<client, config, statusBarState, lspStatus, subscriptions, calls, built,
                libState, bringup, stopRequests, stateListener, statusListener, cfgSent,
                traceSet, registry, installCommandDisposable, liveRegistrations,
                doubleDispose, emitted, delivered, notices, inv, ret, mw, mwRet,
                raw, env, snapshot, prev, passes, serverPath, options, capabilities,
                statusBar, activeEditor>>

HcStep(p, h) ==
    /\ hc' = [hc EXCEPT ![p] = IF h.pc \in {"c_done", "c_rethrow"} THEN IdleHc ELSE h]
    /\ hcRet' = IF h.pc = "c_done" THEN HcReturn(h, p, "returned")
                ELSE IF h.pc = "c_rethrow" THEN HcReturn(h, p, "threw")
                ELSE NoHcRet
    /\ HcUnchanged

CommandInvoked(p, command, r) ==
    /\ HcFree(p)
    /\ HcStep(p, CmdEnter(command, r))

CommandSettled(p, r, files) ==
    /\ hc[p].pc = "c_wait"
    /\ HcStep(p, CmdSettledStep(hc[p], r, files))

CommandAnswered(p, choice) ==
    /\ hc[p].pc = "c_notice"
    /\ HcStep(p, CmdAnsweredStep(hc[p], choice))


\* ---- actions: the settings ----

SettingsUnchanged ==
    UNCHANGED <<client, config, statusBarState, lspStatus, subscriptions, calls, built,
                libState, bringup, stopRequests, stateListener, statusListener, cfgSent,
                traceSet, registry, installCommandDisposable, liveRegistrations,
                doubleDispose, emitted, delivered, notices, inv, ret, mw, mwRet, hc, hcRet,
                statusBar, activeEditor>>

\* The user sets one more section of the settings (sections are set in the order
\* of the schema, at most MaxSections of them).
SettingsEdited(i, value) ==
    /\ passes = 0
    /\ \A j \in Present(raw) : j < i
    /\ Cardinality(Present(raw)) < MaxSections
    /\ raw' = (SectionOrder[i] :> value) @@ raw
    /\ UNCHANGED <<env, snapshot, prev, passes, serverPath, options, capabilities>>
    /\ SettingsUnchanged

\* normalizeConfig(raw, env)
SettingsNormalized(e) ==
    /\ passes = 0
    /\ env' = e
    /\ snapshot' = NormalizeConfig(raw, e)
    /\ prev' = snapshot
    /\ passes' = 1
    /\ UNCHANGED <<raw, serverPath, options, capabilities>>
    /\ SettingsUnchanged

\* normalizeConfig(prepareVSCodeConfig(snapshot), env)
SettingsNormalizedAgain ==
    /\ passes >= 1
    /\ passes < MaxPasses
    /\ snapshot' = NormalizeConfig(AsRaw(PrepareVSCodeConfig(snapshot)), env)
    /\ prev' = snapshot
    /\ passes' = passes + 1
    /\ UNCHANGED <<raw, env, serverPath, options, capabilities>>
    /\ SettingsUnchanged


\* ---- actions: bootstrap and client options ----

\* createServerOptions: resolveServerPath for the snapshot.
ServerPathResolved(extensionPath, e, platform, files) ==
    /\ passes >= 1
    /\ serverPath' = [called |-> TRUE, extensionPath |-> extensionPath, env |-> e,
                      platform |-> platform, files |-> files,
                      result |-> ResolveServerPath(snapshot, extensionPath, e, platform, files)]
    /\ UNCHANGED <<raw, env, snapshot, prev, passes, options, capabilities>>
    /\ SettingsUnchanged

\* createLanguageClient: clientOptions(config, middleware).
ClientOptionsBuilt ==
    /\ passes >= 1
    /\ options' = ClientOptions(snapshot)
    /\ capabilities' = NoCapabilities
    /\ UNCHANGED <<raw, env, snapshot, prev, passes, serverPath>>
    /\ SettingsUnchanged

\* fillClientCapabilities of the registered feature, whose overrides are
\* options.experimental ?? EXPERIMENTAL_CAPABILITIES.
CapabilitiesFilled(experimental) ==
    /\ options.built
    /\ capabilities' = [applied |-> TRUE, existing |-> experimental,
                        overrides |-> options.experimental,
                        experimental |->
                           ApplyExperimentalCapabilities(experimental, options.experimental)]
    /\ UNCHANGED <<raw, env, snapshot, prev, passes, serverPath, options>>
    /\ SettingsUnchanged

\* applyExperimentalCapabilities(capabilities, overrides) called with overrides of
\* the caller's.
CapabilitiesApplied(experimental, overrides) ==
    /\ capabilities' = [applied |-> TRUE, existing |-> experimental, overrides |-> overrides,
                        experimental |-> ApplyExperimentalCapabilities(experimental, overrides)]
    /\ UNCHANGED <<raw, env, snapshot, prev, passes, serverPath, options>>
    /\ SettingsUnchanged

\* ---- actions: the status bar item ----

\* onDidChangeActiveTextEditor: the focus moves, the listener of the constructor runs.
ActiveEditorChanged(languageId) ==
    /\ languageId # activeEditor
    /\ Set(UpdateStatusBarVisibility([Cur EXCEPT !.activeEditor = languageId], languageId))

\* updateStatusBarState(state)
StatusBarStateUpdated(state) ==
    /\ state \in ServerStates
    /\ Set(UpdateStatusBarState(Cur, state))

\* updateServerStatus(params)
ServerStatusUpdated(status) ==
    /\ status \in Statuses
    /\ Set(UpdateServerStatus(Cur, status))

\* ---- actions: invocations from the host ----

StartCall(p, override) ==
    /\ FreeSlot(p)
    /\ AlreadyStarted(Cur) \/ CanBuild(Cur)
    /\ Set(StartSync(Invoke(Cur, p, "start", override), p, override))

StopCall(p) ==
    /\ FreeSlot(p)
    /\ Set(StopSync(Invoke(Cur, p, "stop", 0), p))

RestartCall(p) ==
    /\ FreeSlot(p)
    /\ CanBuild(Cur)
    /\ Set(StopSync(Invoke(Cur, p, "restart", 0), p))

DisposeCall(p) ==
    /\ FreeSlot(p)
    /\ Set(StopSync(Invoke(Cur, p, "dispose", 0), p))

UpdateConfigCall(p, cfg) ==
    /\ FreeSlot(p)
    /\ Set(UpdateConfigEnter(Invoke(Cur, p, "updateConfig", cfg), p, cfg))

\* ---- actions: continuations after an await ----

StartLoaded(p, r) ==
    /\ calls[p].pc = "s_load"
    /\ Set(StartLoadedStep(Cur, p, r))

StartUpdated(p) ==
    /\ calls[p].pc = "s_update"
    /\ \E ok \in BOOLEAN : Set(StartUpdatedStep(Cur, p, ok))

StartCreated(p) ==
    /\ calls[p].pc = "s_create"
    /\ \E ok \in BOOLEAN : Set(StartCreatedStep(Cur, p, ok))

StartCommit(p) ==
    /\ calls[p].pc = "s_bringup"
    /\ BroughtUp(Cur, p)
    /\ Set(StartCommitStep(Cur, p))

StartRejected(p) ==
    /\ calls[p].pc = "s_bringup"
    /\ bringup[calls[p].cl] = "failed"
    /\ Set(StartCatch(Cur, p, "bringup"))

StartTraced(p) ==
    /\ calls[p].pc = "s_trace"
    /\ \E ok \in BOOLEAN : Set(StartTracedStep(Cur, p, ok))

StartCleaned(p) ==
    /\ calls[p].pc = "s_cleanup"
    /\ Set(StartCleanedStep(Cur, p))

StopSettled(p) ==
    /\ calls[p].pc = "t_wait"
    /\ \E ok \in BOOLEAN : Set(StopSettledStep(Cur, p, ok))

RestartContinue(p) ==
    /\ calls[p].pc = "r_stopped"
    /\ Set(StartSync(Cur, p, 0))

DisposeContinue(p) ==
    /\ calls[p].pc = "d_stopped"
    /\ Set(DisposeFinish(Cur, p))

UpdateConfigTraced(p) ==
    /\ calls[p].pc = "u_trace"
    /\ \E ok \in BOOLEAN : Set(UpdateConfigResume(Cur, p, ok))

\* ---- actions: the settings-change handler ----

ConfigChanged(p, relevant) ==
    /\ FreeSlot(p)
    /\ Set(ConfigChangedEnter(Invoke(Cur, p, "configChanged", 0), p, relevant))

ConfigLoaded(p, r) ==
    /\ calls[p].pc = "h_load"
    /\ Set(ConfigLoadedStep(Cur, p, r))

ConfigTraced(p) ==
    /\ calls[p].pc = "h_trace"
    /\ \E ok \in BOOLEAN : Set(ConfigTracedStep(Cur, p, ok))

\* ---- actions: activate ----

\* The host activates the extension, once at a time: activate() up to the await
\* of loadConfig().
ActivateCall(p) ==
    /\ FreeSlot(p)
    /\ InFlight(Cur) = {}
    /\ registry = "none"
    /\ built = 0
    /\ config = 0
    /\ Set([Invoke(Cur, p, "activate", 0) EXCEPT !.calls[p].pc = "a_load"])

\* loadConfig() settled; with the flag clear, ctx.start(config) up to its await.
ActivateLoaded(p, r) ==
    /\ calls[p].pc = "a_load"
    /\ LET s == ActivateLoadedStep(Cur, p, r)
       IN IF s.calls[p].pc = "a_start"
          THEN Set(StartSync([s EXCEPT !.inv = [proc |-> p, op |-> "start", arg |-> r,
                                                committed |-> s.client]],
                             p, r))
          ELSE Set(s)

\* ---- actions: the fallback install handler ----

\* The host runs the install command while the registry's registration is live.
InstallCall(p) ==
    /\ FreeSlot(p)
    /\ liveRegistrations > 0
    /\ AlreadyStarted(Cur) \/ CanBuild(Cur)
    /\ Set(StartSync(Invoke(Cur, p, "install", 0), p, 0))

\* The host runs the fallback again, for the command the fallback forwarded.
InstallReentered(p) ==
    /\ calls[p].pc = "i_entry"
    /\ AlreadyStarted(Cur) \/ CanBuild(Cur)
    /\ Set(StartSync(Cur, p, 0))

InstallForwarded(p) ==
    /\ calls[p].pc = "i_forward"
    /\ \E ok \in BOOLEAN : Set(InstallForwardedStep(Cur, p, ok))

InstallAnswered(p) ==
    /\ calls[p].pc = "i_notice"
    /\ Set(InstallAnsweredStep(Cur, p))

\* ---- actions: the client library and the server ----

ClientStarted(c) ==
    /\ libState[c] = "starting"
    /\ Set(OnDidChangeState([Cur EXCEPT !.libState[c] = "running", !.bringup[c] = "ok"],
                            c, "running"))

ClientStartFailed(c) ==
    /\ libState[c] = "starting"
    /\ Set(OnDidChangeState([Cur EXCEPT !.libState[c] = "startFailed", !.bringup[c] = "failed"],
                            c, "stopped"))

\* The server process of a running client exits.
ClientCrashed(c) ==
    /\ libState[c] = "running"
    /\ Set(OnDidChangeState([Cur EXCEPT !.libState[c] = "stopped"], c, "stopped"))

\* experimental/serverStatus arrives from a running client.
ServerStatus(c, h) ==
    /\ libState[c] = "running"
    /\ statusListener[c] = "live"
    /\ Set(UpdateServerStatus(Cur, h))

\* ---- actions: the command registry ----

RegisterCommands ==
    /\ registry = "none"
    /\ Set(RegisterCommandsStep(Cur))

\* Disposable.from(...).dispose(): the state listener goes, then the install command.
DisposeRegistry ==
    /\ registry \in {"live", "disposed"}
    /\ Set(UnregisterInstallCommand([Cur EXCEPT !.registry = "disposed"]))

\* ---- specification ----

Init ==
    /\ client = 0
    /\ config = 0
    /\ statusBarState = "stopped"
    /\ lspStatus = NoStatus
    /\ subscriptions = {}
    /\ calls = [p \in Procs |-> IdleCall]
    /\ built = 0
    /\ libState = [c \in Clients |-> "unbuilt"]
    /\ bringup = [c \in Clients |-> "none"]
    /\ stopRequests = [c \in Clients |-> 0]
    /\ stateListener = [c \in Clients |-> "none"]
    /\ statusListener = [c \in Clients |-> "none"]
    /\ cfgSent = [c \in Clients |-> 0]
    /\ traceSet = [c \in Clients |-> "unset"]
    /\ registry = "none"
    /\ installCommandDisposable = FALSE
    /\ liveRegistrations = 0
    /\ doubleDispose = FALSE
    /\ emitted = <<"stopped">>
    /\ delivered = <<[payload |-> "stopped", state |-> "stopped", health |-> NoStatus]>>
    /\ notices = <<>>
    /\ inv = NoInv
    /\ ret = NoRet
    /\ mw = [p \in Procs |-> IdleMw]
    /\ mwRet = NoMwRet
    /\ hc = [p \in Procs |-> IdleHc]
    /\ hcRet = NoHcRet
    /\ raw = EmptyRaw
    /\ env = EmptyEnv
    /\ snapshot = NoSnapshot
    /\ prev = NoSnapshot
    /\ passes = 0
    /\ serverPath = NoServerPath
    /\ options = NoOptions
    /\ capabilities = NoCapabilities
    /\ statusBar = [text |-> "$(circle-slash) solidity-analyzer",
                    tooltip |-> "solidity-analyzer is stopped.",
                    command |-> "solidity-analyzer.openLogs",
                    visible |-> FALSE]
    /\ activeEditor = NoEditor

\* The steps that take no snapshot as input.
Progress ==
    \/ \E p \in Procs : StopCall(p)
    \/ \E p \in Procs : StartUpdated(p)
    \/ \E p \in Procs : StartCreated(p)
    \/ \E p \in Procs : StartCommit(p)
    \/ \E p \in Procs : StartRejected(p)
    \/ \E p \in Procs : StartTraced(p)
    \/ \E p \in Procs : StartCleaned(p)
    \/ \E p \in Procs : StopSettled(p)
    \/ \E p \in Procs : UpdateConfigTraced(p)
    \/ \E c \in Clients : ClientStarted(c)
    \/ \E c \in Clients : ClientStartFailed(c)
    \/ \E c \in Clients, h \in Healths : ServerStatus(c, h)

\* Spec: every operation of the controller and the registry, with settings that
\* do not change (every snapshot loaded or passed is the same one).
FixedConfigs == {c \in Configs : c = 1}

Next ==
    \/ Progress
    \/ \E p \in Procs, o \in {0} \cup FixedConfigs : StartCall(p, o)
    \/ \E p \in Procs, r \in {0} \cup FixedConfigs : StartLoaded(p, r)
    \/ \E p \in Procs, cfg \in FixedConfigs : UpdateConfigCall(p, cfg)
    \/ \E p \in Procs : RestartCall(p)
    \/ \E p \in Procs : DisposeCall(p)
    \/ \E p \in Procs : RestartContinue(p)
    \/ \E p \in Procs : DisposeContinue(p)
    \/ \E c \in Clients : ClientCrashed(c)
    \/ RegisterCommands
    \/ DisposeRegistry

Spec == Init /\ [][Next]_vars

\* SpecConfig: start, stop, updateConfig and the settings-change handler, with
\* settings that change.
NextConfig ==
    \/ Progress
    \/ \E p \in Procs, o \in {0} \cup Configs : StartCall(p, o)
    \/ \E p \in Procs, r \in {0} \cup Configs : StartLoaded(p, r)
    \/ \E p \in Procs, cfg \in Configs : UpdateConfigCall(p, cfg)
    \/ \E p \in Procs, relevant \in BOOLEAN : ConfigChanged(p, relevant)
    \/ \E p \in Procs, r \in {0} \cup Configs : ConfigLoaded(p, r)
    \/ \E p \in Procs : ConfigTraced(p)

SpecConfig == Init /\ [][NextConfig]_vars

\* SpecMiddleware: invocations of the executeCommand middleware of one client.
NextMiddleware ==
    \/ \E p \in Procs, command \in CommandIds, args \in ArgLists : ExecuteCommand(p, command, args)
    \/ \E p \in Procs, r \in Results \cup Thrown : MwForwarded(p, r)
    \/ \E p \in Procs, r \in {NoThrown} \cup Thrown : MwEnsured(p, r)
    \/ \E p \in Procs, r \in Results \cup Thrown : MwNextDone(p, r)
    \/ \E p \in Procs : MwInfoShown(p)
    \/ \E p \in Procs : MwErrorShown(p)

SpecMiddleware == Init /\ [][NextMiddleware]_vars

\* SpecCommands: invocations of the command handlers.
NextCommands ==
    \/ \E p \in Procs, command \in HandledCommands, r \in {NoThrown} \cup Thrown :
          CommandInvoked(p, command, r)
    \/ \E p \in Procs, r \in {NoThrown} \cup Thrown, files \in FileLists :
          CommandSettled(p, r, files)
    \/ \E p \in Procs, choice \in {"Open Logs", "dismissed"} : CommandAnswered(p, choice)

SpecCommands == Init /\ [][NextCommands]_vars

\* SpecSettings: raw settings, normalized once and again.
NextSettings ==
    \/ \E i \in 1..Len(SectionOrder) : \E value \in SectionValues(SectionOrder[i]) :
          SettingsEdited(i, value)
    \/ \E e \in Envs : SettingsNormalized(e)
    \/ SettingsNormalizedAgain

SpecSettings == Init /\ [][NextSettings]_vars

\* SpecBootstrap: the server path resolved for snapshots with and without a path.
NextBootstrap ==
    \/ \E p \in RawPaths : SettingsEdited(1, JsObject([path |-> p, extraEnv |-> JsUndefined]))
    \/ SettingsNormalized(EmptyEnv)
    \/ \E extensionPath \in ExtensionPaths, e \in ProcessEnvs, platform \in Platforms,
          files \in SUBSET BundledFiles :
          ServerPathResolved(extensionPath, e, platform, files)

SpecBootstrap == Init /\ [][NextBootstrap]_vars

\* SpecCapabilities: the client options and the handshake.
NextCapabilities ==
    \/ \E value \in SectionValues("trace") : SettingsEdited(2, value)
    \/ SettingsNormalized(EmptyEnv)
    \/ ClientOptionsBuilt
    \/ \E experimental \in ExistingExperimental : CapabilitiesFilled(experimental)
    \/ \E experimental \in ExistingExperimental, overrides \in Overrides :
          CapabilitiesApplied(experimental, overrides)

SpecCapabilities == Init /\ [][NextCapabilities]_vars

\* SpecStatusBar: the status bar item under Ctx's private methods, settings updates
\* without a client, and focus changes.
NextStatusBar ==
    \/ \E languageId \in Languages : ActiveEditorChanged(languageId)
    \/ \E state \in ServerStates : StatusBarStateUpdated(state)
    \/ \E status \in Statuses : ServerStatusUpdated(status)
    \/ \E p \in Procs, cfg \in BarConfigs : UpdateConfigCall(p, cfg)

SpecStatusBar == Init /\ [][NextStatusBar]_vars

\* SpecPayload: the client options built for every normalized snapshot.
NextPayload ==
    \/ \E i \in 1..Len(SectionOrder) : \E value \in SectionValues(SectionOrder[i]) :
          SettingsEdited(i, value)
    \/ \E e \in Envs : SettingsNormalized(e)
    \/ ClientOptionsBuilt

SpecPayload == Init /\ [][NextPayload]_vars

\* SpecInstall: the registry with its fallback install handler, start() and stop()
\* of the controller and the client's own lifecycle.
NextInstall ==
    \/ RegisterCommands
    \/ \E p \in Procs : InstallCall(p)
    \/ \E p \in Procs : InstallReentered(p)
    \/ \E p \in Procs : InstallForwarded(p)
    \/ \E p \in Procs : InstallAnswered(p)
    \/ \E p \in Procs, r \in {0} \cup FixedConfigs : StartLoaded(p, r)
    \/ \E p \in Procs : StartUpdated(p)
    \/ \E p \in Procs : StartCreated(p)
    \/ \E p \in Procs : StartCommit(p)
    \/ \E p \in Procs : StartRejected(p)
    \/ \E p \in Procs : StartTraced(p)
    \/ \E p \in Procs : StartCleaned(p)
    \/ \E p \in Procs : StopCall(p)
    \/ \E p \in Procs : StopSettled(p)
    \/ \E c \in Clients : ClientStarted(c)
    \/ \E c \in Clients : ClientStartFailed(c)
    \/ \E c \in Clients : ClientCrashed(c)

SpecInstall == Init /\ [][NextInstall]_vars

\* SpecActivate: the activation of the extension, the client's own lifecycle, and
\* the fallback install handler once the commands are registered.
NextActivate ==
    \/ \E p \in Procs : ActivateCall(p)
    \/ \E p \in Procs, r \in {0} \cup Configs : ActivateLoaded(p, r)
    \/ \E p \in Procs : StartUpdated(p)
    \/ \E p \in Procs : StartCreated(p)
    \/ \E p \in Procs : StartCommit(p)
    \/ \E p \in Procs : StartRejected(p)
    \/ \E p \in Procs : StartTraced(p)
    \/ \E p \in Procs : StartCleaned(p)
    \/ \E p \in Procs : DisposeContinue(p)
    \/ \E c \in Clients : ClientStarted(c)
    \/ \E c \in Clients : ClientStartFailed(c)
    \/ \E c \in Clients : ClientCrashed(c)
    \/ \E p \in Procs : InstallCall(p)
    \/ \E p \in Procs : InstallReentered(p)
    \/ \E p \in Procs : InstallForwarded(p)
    \/ \E p \in Procs : InstallAnswered(p)
    \/ \E p \in Procs, r \in {0} \cup Configs : StartLoaded(p, r)

SpecActivate == Init /\ [][NextActivate]_vars

\* SpecTermination: start(), stop(), restart() and dispose() with the client's own
\* lifecycle, every pending call settling in the end.
NextTermination ==
    \/ \E p \in Procs, o \in {0} \cup FixedConfigs : StartCall(p, o)
    \/ \E p \in Procs : StopCall(p)
    \/ \E p \in Procs : RestartCall(p)
    \/ \E p \in Procs : DisposeCall(p)
    \/ \E p \in Procs, r \in {0} \cup FixedConfigs : StartLoaded(p, r)
    \/ \E p \in Procs : StartUpdated(p)
    \/ \E p \in Procs : StartCreated(p)
    \/ \E p \in Procs : StartCommit(p)
    \/ \E p \in Procs : StartRejected(p)
    \/ \E p \in Procs : StartTraced(p)
    \/ \E p \in Procs : StartCleaned(p)
    \/ \E p \in Procs : StopSettled(p)
    \/ \E p \in Procs : RestartContinue(p)
    \/ \E p \in Procs : DisposeContinue(p)
    \/ \E c \in Clients : ClientStarted(c)
    \/ \E c \in Clients : ClientStartFailed(c)
    \/ \E c \in Clients : ClientCrashed(c)

\* The call p awaits settles and p runs on.
Settles(p) ==
    \/ \E r \in {0} \cup FixedConfigs : StartLoaded(p, r)
    \/ StartUpdated(p)
    \/ StartCreated(p)
    \/ StartCommit(p)
    \/ StartRejected(p)
    \/ StartTraced(p)
    \/ StartCleaned(p)
    \/ StopSettled(p)
    \/ RestartContinue(p)
    \/ DisposeContinue(p)

\* Every pending call resolves or rejects: the awaits of the controller, and the
\* bring-up of a client.
EveryCallSettles ==
    /\ \A p \in Procs : WF_vars(Settles(p))
    /\ \A c \in Clients : WF_vars(ClientStarted(c) \/ ClientStartFailed(c))

SpecTermination == Init /\ [][NextTermination]_vars /\ EveryCallSettles


\* ---- properties ----

StillRunning(c) == libState[c] \in {"starting", "running"}

\* A subscription of client c can still reach updateStatusBarState or updateServerStatus.
CanStillReport(c) ==
    \/ stateListener[c] = "live" /\ libState[c] \in {"starting", "running"}
    \/ statusListener[c] = "live" /\ libState[c] = "running"

StartReturned == ret.op \in {"start", "restart"} /\ ret.note # "noop"

NoneInFlight == \A p \in Procs : calls[p].pc = "idle"

\* C1: after a start() that failed, at whatever step, the client it built is not
\* running and none of its two subscriptions can still change state or health.
C1_FailedStartLeavesNothing ==
    (StartReturned /\ ret.outcome = "threw" /\ ret.cl # 0)
        => (~StillRunning(ret.cl) /\ ~CanStillReport(ret.cl))

\* C2: a start() in which a step failed returns by rethrowing, and when it returns
\* the session state is error and no client is committed.
C2_FailedStartRethrowsInError ==
    StartReturned =>
        /\ (ret.failedAt # "none") <=> (ret.outcome = "threw")
        /\ ret.outcome = "threw" => (statusBarState = "error" /\ client = 0)

C2_Witness ==
    /\ ret.op = "start"
    /\ ret.outcome = "threw"
    /\ ret.failedAt = "bringup"
    /\ NoneInFlight
    /\ statusBarState = "error"

\* C3: when stop() or dispose() was invoked while a start() was waiting for the
\* bring-up of its client, and nothing else was requested, then once both calls
\* have returned that client is not running.
C3_StopDuringPendingStart ==
    (StartReturned /\ ret.met = 1 /\ ret.cl # 0 /\ NoneInFlight) => ~StillRunning(ret.cl)

\* C4: at any time at most one client has had its bring-up requested and its
\* shutdown not requested.
C4_SingleSession ==
    Cardinality({c \in Clients : bringup[c] # "none" /\ stopRequests[c] = 0}) <= 1

\* C5: start() invoked while a client is committed changes nothing (committed
\* client, held snapshot, session state, health, clients and their settings,
\* other invocations), fires no event and returns at once without error.
C5_StartWhileStartedIsNoop ==
    [][(inv'.op = "start" /\ client # 0) =>
          /\ UNCHANGED <<client, config, statusBarState, lspStatus, subscriptions,
                         built, libState, bringup, stopRequests,
                         stateListener, statusListener, cfgSent, traceSet>>
          /\ \A q \in Procs : [calls'[q] EXCEPT !.met = 0] = [calls[q] EXCEPT !.met = 0]
          /\ emitted' = <<>>
          /\ ret'.proc = inv'.proc
          /\ ret'.op = "start"
          /\ ret'.outcome = "ok"]_vars

C5_Witness ==
    /\ inv.op = "start"
    /\ inv.committed # 0
    /\ inv.arg # 0
    /\ inv.arg # config
    /\ ret.note = "noop"
    /\ client = inv.committed

\* C6: the committed client is never one whose bring-up is pending or has failed.
C6_CommittedWasBroughtUp == client # 0 => bringup[client] = "ok"

C6_Witness ==
    /\ client # 0
    /\ \E p \in Procs : calls[p].pc = "s_trace" /\ calls[p].cl = client
    /\ \E c \in Clients : bringup[c] = "failed"

\* C7: stop() on a committed client has cleared the committed reference while it
\* waits for the shutdown, sets the session state to stopped (firing it) in the
\* step in which the shutdown settles, and never throws, nor does dispose().
C7_StopClearsFirstNeverThrows ==
    /\ [](\A p \in Procs : calls[p].pc = "t_wait" => client # calls[p].cl)
    /\ [](ret.op \in {"stop", "dispose"} => ret.outcome = "ok")
    /\ [][\A p \in Procs :
            (calls[p].pc = "t_wait" /\ calls'[p].pc # "t_wait") =>
                /\ statusBarState' = "stopped"
                /\ emitted' # <<>>
                /\ emitted'[Len(emitted')] = "stopped"]_vars

C7_Witness ==
    /\ ret.op = "stop"
    /\ ret.note = "shutdownFailed"
    /\ ret.outcome = "ok"
    /\ statusBarState = "stopped"

\* C8: stop() invoked with no committed client sets the session state to
\* stopped, requests no shutdown of any client and returns at once without error.
C8_StopWithoutClient ==
    [][(inv'.op = "stop" /\ client = 0) =>
          /\ statusBarState' = "stopped"
          /\ client' = 0
          /\ stopRequests' = stopRequests
          /\ libState' = libState
          /\ ret'.proc = inv'.proc
          /\ ret'.op = "stop"
          /\ ret'.outcome = "ok"]_vars

C8_Witness ==
    /\ inv.op = "stop"
    /\ inv.committed = 0
    /\ ret.op = "stop"
    /\ ret.note = "noop"
    /\ statusBarState = "stopped"
    /\ \E c \in Clients : bringup[c] = "failed"

\* C9: while the registry is live, its install-toolchain command is registered
\* exactly when the session state is stopped or error.
C9_InstallRegisteredIffStoppedOrError ==
    registry = "live" =>
        ((liveRegistrations >= 1) <=> (statusBarState \in {"stopped", "error"}))

C9_Witness ==
    /\ registry = "live"
    /\ statusBarState = "error"
    /\ liveRegistrations = 1
    /\ emitted = <<"error">>

\* C10: the registry holds at most one live registration of the install-toolchain
\* command, never disposes one twice, and holds none once it is disposed.
C10_AtMostOneRegistration ==
    /\ liveRegistrations <= 1
    /\ ~doubleDispose
    /\ installCommandDisposable <=> (liveRegistrations = 1)
    /\ registry = "disposed" => liveRegistrations = 0

C10_Witness ==
    /\ registry = "live"
    /\ liveRegistrations = 1
    /\ emitted = <<"stopped">>
    /\ inv.op = "stop"
    /\ inv.committed = 0
    /\ NoneInFlight
    /\ \A c \in Clients : ~StillRunning(c)

\* The public state of a client (State.Starting, State.Running, State.Stopped).
PublicState(l) == IF l \in {"starting", "running"} THEN l ELSE "stopped"

\* A step of the environment: no invocation, no continuation, no registry call.
EnvStep ==
    /\ inv' = NoInv
    /\ ret' = NoRet
    /\ registry' = registry
    /\ \A q \in Procs : calls'[q].pc = calls[q].pc

\* The committed client, or the client of a start() in flight.
Active(c) ==
    \/ client = c
    \/ \E p \in Procs : calls[p].op \in {"start", "restart"} /\ calls[p].cl = c

\* C11: whenever the session state is not running, the stored health is empty.
C11_HealthOnlyWhileRunning == statusBarState # "running" => lspStatus = NoStatus

\* C12: the session state is set to error only in a step in which a start() (or
\* the start() of a restart()) returns by throwing; and a change of the public
\* state of a client whose listener is attached sets the session state to the
\* state of the same name, firing it.
C12_ErrorOnlyFromFailingStart ==
    /\ [][(\/ \E i \in 1..Len(emitted') : emitted'[i] = "error"
           \/ (statusBarState' = "error" /\ statusBarState # "error"))
            => (ret'.op \in {"start", "restart"} /\ ret'.outcome = "threw")]_vars
    /\ [][\A c \in Clients :
            (/\ PublicState(libState'[c]) # PublicState(libState[c])
             /\ stateListener'[c] = "live")
            => /\ statusBarState' = PublicState(libState'[c])
               /\ emitted' = <<PublicState(libState'[c])>>]_vars

C12_Witness ==
    /\ emitted = <<"stopped">>
    /\ statusBarState = "stopped"
    /\ inv = NoInv
    /\ ret = NoRet
    /\ \E c \in Clients : libState[c] = "startFailed" /\ stateListener[c] = "live"

\* C13: a lifecycle event of a client that is neither committed nor the client of
\* a start() in flight changes neither the session state nor the stored health
\* and fires nothing; and the health is stored only when some such active client
\* is running with its notification listener attached.
C13_OnlyActiveClientChangesState ==
    /\ [][\A c \in Clients :
            (EnvStep /\ libState'[c] # libState[c] /\ ~Active(c))
            => (UNCHANGED <<statusBarState, lspStatus>> /\ emitted' = <<>>)]_vars
    /\ [][(EnvStep /\ lspStatus' # lspStatus /\ lspStatus' \in Healths)
            => \E c \in Clients : /\ Active(c)
                                  /\ libState[c] = "running"
                                  /\ statusListener[c] = "live"]_vars

\* C14: every change of the session state fires the new state in the same step;
\* a step fires at most one event, whose payload is the session state after the
\* step; and at each delivery the subscriber finds the session state equal to the
\* payload and, unless the payload is running, the health already cleared.
C14_EveryAssignmentFiresItsState ==
    /\ [](/\ Len(emitted) <= 1
          /\ Len(delivered) = Len(emitted)
          /\ emitted # <<>> => statusBarState = emitted[Len(emitted)]
          /\ \A i \in 1..Len(delivered) :
                /\ delivered[i].payload = emitted[i]
                /\ delivered[i].state = delivered[i].payload
                /\ delivered[i].payload # "running" => delivered[i].health = NoStatus)
    /\ [][statusBarState' # statusBarState => emitted' = <<statusBarState'>>]_vars

C14_Witness ==
    /\ delivered = <<[payload |-> "starting", state |-> "starting", health |-> NoStatus]>>
    /\ \E c \in Clients : libState[c] = "running" /\ statusListener[c] = "live"
    /\ \E c \in Clients : libState[c] = "starting"

\* A shutdown of client d was requested and some invocation other than p waits for it.
AwaitedByOther(d, p) ==
    \E q \in Procs \ {p} : calls[q].cl = d /\ calls[q].pc \in {"t_wait", "s_cleanup"}

\* restart() builds its client only when no shutdown it requested is still under
\* way, and the client it builds did not exist before.
RestartBuildsAfterShutdown ==
    [][\A p \in Procs :
         (calls[p].op = "restart" /\ calls[p].cl = 0 /\ calls'[p].cl # 0)
         => /\ calls[p].pc = "s_create"
            /\ libState[calls'[p].cl] = "unbuilt"
            /\ \A d \in Clients : libState[d] = "stopping" => AwaitedByOther(d, p)]_vars

\* A restart() that nothing overlapped and that returned without error has
\* committed the client it built.
RestartEndsCommitted ==
    [](ret.op = "restart" /\ ret.outcome = "ok" /\ ret.met = 0
         => (ret.note = "started" /\ ret.cl # 0 /\ client = ret.cl))

\* C15 as stated: restart() waits for the shutdown before building, ends with a
\* committed client, and with no committed client its invocation does what an
\* invocation of start() does: it fires nothing and leaves the session state.
C15_RestartExactlyAsStart ==
    /\ RestartBuildsAfterShutdown
    /\ RestartEndsCommitted
    /\ [][(inv'.op = "restart" /\ client = 0)
            => (emitted' = <<>> /\ statusBarState' = statusBarState)]_vars

\* C15 amended: with no committed client restart() requests no shutdown, sets the
\* session state to stopped (firing it), and then goes on as start() without an
\* override does: a no-op if a client has been committed meanwhile, else it loads
\* or takes the held snapshot, firing nothing in that step.
C15_RestartIsStopThenStart ==
    /\ RestartBuildsAfterShutdown
    /\ RestartEndsCommitted
    /\ [][(inv'.op = "restart" /\ client = 0)
            => /\ emitted' = <<"stopped">>
               /\ statusBarState' = "stopped"
               /\ UNCHANGED <<stopRequests, libState, client>>
               /\ calls'[inv'.proc].pc = "r_stopped"]_vars
    /\ [][\A p \in Procs :
            (calls[p].pc = "r_stopped" /\ calls'[p].pc # "r_stopped")
            => IF client # 0
               THEN ret'.proc = p /\ ret'.note = "noop" /\ UNCHANGED <<client, statusBarState>>
               ELSE /\ calls'[p].pc = (IF config = 0 THEN "s_load" ELSE "s_update")
                    /\ emitted' = <<>>
                    /\ UNCHANGED <<client, statusBarState, config, built>>]_vars

C15_Witness ==
    /\ ret.op = "restart"
    /\ ret.note = "started"
    /\ ret.met = 0
    /\ client = 2
    /\ libState[1] = "stopped"
    /\ stopRequests[1] = 1
    /\ libState[2] = "running"

\* What updateConfig() must leave alone: the session, its health and every client's life.
UpdateConfigFrame ==
    /\ UNCHANGED <<statusBarState, client, lspStatus, built, libState, bringup,
                   stopRequests, subscriptions>>
    /\ emitted' = <<>>

\* C16: updateConfig(snapshot) replaces the held snapshot, leaves the session
\* state, the committed client, the health and every client's life alone and fires
\* nothing; with no committed client it sends nothing and returns; with a committed
\* client it sets that client's trace verbosity from the snapshot and, unless
\* setTrace rejects, delivers the snapshot to that client and returns normally.
C16_UpdateConfigFrameAndEffect ==
    /\ [][inv'.op = "updateConfig"
            => /\ config' = inv'.arg
               /\ UpdateConfigFrame
               /\ IF client = 0
                  THEN UNCHANGED <<traceSet, cfgSent>> /\ ret'.proc = inv'.proc
                  ELSE traceSet'[client] = TraceOf(inv'.arg)]_vars
    /\ [][\A p \in Procs :
            (calls[p].pc = "u_trace" /\ calls'[p].pc # "u_trace")
            => /\ UpdateConfigFrame
               /\ config' = config
               /\ ret'.proc = p
               /\ (ret'.outcome = "threw" /\ ret'.note = "none")
                  \/ (ret'.outcome = "ok" /\ cfgSent'[calls[p].uc] = calls[p].cfg)]_vars

\* C17: when the settings handler's update fails (loadConfig or setTrace rejects,
\* or the notification cannot be sent), the session state and the committed client
\* are as before, nothing is fired, the handler shows one error notice and returns
\* normally; when nothing fails it shows none.
C17_FailedSettingsUpdateIsSurfaced ==
    /\ [](ret.op = "configChanged"
            => /\ ret.outcome = "ok"
               /\ IF ret.failedAt # "none"
                  THEN notices = <<"Failed to update configuration">>
                  ELSE notices = <<>>)
    /\ [][\A p \in Procs :
            (calls[p].op = "configChanged" /\ ret'.proc = p /\ ret'.failedAt # "none")
            => (UNCHANGED <<statusBarState, client, lspStatus>> /\ emitted' = <<>>)]_vars

C17_Witness ==
    /\ ret.op = "configChanged"
    /\ ret.failedAt = "update"
    /\ ret.note = "noticed"
    /\ notices # <<>>
    /\ client # 0
    /\ libState[client] = "running"
    /\ statusBarState = "running"
    /\ config # cfgSent[client]

\* C18: dispose() never throws; when nothing overlapped it, the session state is
\* stopped and no client is committed when it returns; invoked with no committed
\* client (before any start, after a failed start, after stop() or after an
\* earlier dispose()) it requests no shutdown of any client.
C18_DisposeIdempotent ==
    /\ [](ret.op = "dispose"
            => /\ ret.outcome = "ok"
               /\ ret.met = 0 => (statusBarState = "stopped" /\ client = 0))
    /\ [][(inv'.op = "dispose" /\ client = 0)
            => UNCHANGED <<stopRequests, libState, client>>]_vars
    /\ [][(ret.op = "dispose" /\ ret.met = 0 /\ inv'.op = "dispose")
            => UNCHANGED <<stopRequests, libState, client>>]_vars

C18_Witness ==
    /\ ret.op = "dispose"
    /\ ret.met = 0
    /\ statusBarState = "stopped"
    /\ client = 0
    /\ \E c \in Clients : bringup[c] = "failed"
    /\ \E c \in Clients : bringup[c] = "ok" /\ stopRequests[c] = 1 /\ libState[c] = "stopped"

\* C19: a start() invoked right after a start() that failed or a stop(), each
\* overlapped by nothing, is not treated as already started and proceeds to load
\* or adopt a snapshot; and a start() that nothing overlapped and that returned
\* normally has committed the client it built, the session state being the
\* public state of that client.
C19_StartAfterFailureOrStop ==
    /\ [][(/\ inv'.op = "start"
           /\ ret.met = 0
           /\ \/ ret.op = "stop"
              \/ (ret.op \in {"start", "restart"} /\ ret.outcome = "threw"))
            => /\ ret' = NoRet
               /\ calls'[inv'.proc].pc \in {"s_load", "s_update"}]_vars
    /\ [](ret.op = "start" /\ ret.outcome = "ok" /\ ret.note # "noop" /\ ret.met = 0
            => /\ client = ret.cl
               /\ client # 0
               /\ statusBarState = PublicState(libState[ret.cl]))

\* The number of calls of a dependency in a middleware invocation.
Count(did, call) == Cardinality({i \in 1..Len(did) : did[i].call = call})

\* C20: an invocation for the install command in which ensureStarted or the
\* forwarded call failed does not throw: it has logged once, shown one error
\* notice ending in the message of the error, shown no informational notice, and
\* returns undefined.
C20_InstallFailureIsSwallowed ==
    (mwRet.command = InstallCommandId /\ mwRet.error # NoThrown)
        => /\ mwRet.outcome = "returned"
           /\ mwRet.value = Undefined
           /\ Count(mwRet.did, "log") = 1
           /\ Count(mwRet.did, "showErrorMessage") = 1
           /\ Count(mwRet.did, "showInformationMessage") = 0
           /\ \E i \in 1..Len(mwRet.did) :
                 /\ mwRet.did[i].call = "showErrorMessage"
                 /\ mwRet.did[i].arg = (IF mwRet.error.kind = "Error"
                                        THEN mwRet.error.message ELSE mwRet.error.str)

C20_Witness ==
    /\ mwRet.command = InstallCommandId
    /\ mwRet.error.kind = "Error"
    /\ mwRet.outcome = "returned"
    /\ Count(mwRet.did, "next") = 1
    /\ Count(mwRet.did, "showErrorMessage") = 1

\* The calls an invocation has made, in order.
Calls(did) == [i \in 1..Len(did) |-> did[i].call]

\* C21: an invocation for a command other than the install command has made one
\* call only, next with the same id and arguments, and returns what next resolved
\* with or throws what next rejected with.
C21_OtherCommandsAreForwarded ==
    (mwRet.proc # 0 /\ mwRet.command # InstallCommandId)
        => /\ mwRet.did = <<[call |-> "next", text |-> mwRet.command, arg |-> mwRet.args]>>
           /\ mwRet.value = mwRet.settled
           /\ mwRet.outcome = (IF "kind" \in DOMAIN mwRet.settled THEN "threw" ELSE "returned")

C21_Witness ==
    /\ mwRet.command = "solidity-analyzer.indexedFiles"
    /\ mwRet.args = "0.8.26"
    /\ mwRet.outcome = "threw"
    /\ mwRet.value.kind = "string"
    /\ \E q \in Procs : mw[q].pc = "m_next"

\* C22: the forwarded call of an install invocation is issued only after
\* ensureStarted has settled; an install invocation in which nothing failed has
\* called ensureStarted, withProgress and next (same id and arguments) once each
\* in this order, then showInformationMessage with the result exactly when the
\* result is a string that is not empty, and returns the result of next.
C22_InstallSuccessPath ==
    /\ \A p \in Procs : mw[p].pc = "m_ensure" => Calls(mw[p].did) = <<"ensureStarted">>
    /\ (mwRet.command = InstallCommandId /\ mwRet.error = NoThrown)
         => /\ mwRet.outcome = "returned"
            /\ mwRet.value = mwRet.settled
            /\ Len(mwRet.did) >= 3
            /\ mwRet.did[3] = [call |-> "next", text |-> mwRet.command, arg |-> mwRet.args]
            /\ IF mwRet.settled.type = "string" /\ mwRet.settled.text # ""
               THEN /\ Calls(mwRet.did) = <<"ensureStarted", "withProgress", "next",
                                             "showInformationMessage">>
                    /\ mwRet.did[4].text = mwRet.settled.text
               ELSE Calls(mwRet.did) = <<"ensureStarted", "withProgress", "next">>

C22_Witness ==
    /\ mwRet.command = InstallCommandId
    /\ mwRet.outcome = "returned"
    /\ mwRet.value = [type |-> "string", text |-> "installed solc"]
    /\ Len(mwRet.did) = 4
    /\ mwRet.did[4].call = "showInformationMessage"

\* C23: a handler in which the delegated call failed does not throw: it has shown
\* one error notice, which offers Open Logs and carries the action and the
\* message of the error, and has opened the logs exactly when Open Logs was chosen.
C23_CommandFailureIsSurfaced ==
    (hcRet.proc # 0 /\ hcRet.error # NoThrown)
        => /\ hcRet.outcome = "returned"
           /\ Count(hcRet.did, "showErrorMessage") = 1
           /\ \E i \in 1..Len(hcRet.did) :
                 /\ hcRet.did[i].call = "showErrorMessage"
                 /\ hcRet.did[i].items = <<"Open Logs">>
                 /\ hcRet.did[i].arg = (IF hcRet.error.kind = "Error"
                                        THEN hcRet.error.message ELSE hcRet.error.str)
           /\ Count(hcRet.did, "ctx.showLogs") = (IF hcRet.choice = "Open Logs" THEN 1 ELSE 0)

\* ---- settings: what the properties speak of ----

\* The raw value of a field: absent when its section is.
RawField(section, field) ==
    IF section \in DOMAIN raw THEN raw[section].val[field] ELSE JsUndefined

Given(v) == v.type \notin {"undefined", "null"}

\* The defaults of the configuration schema.
DocumentedDefaults ==
    [server |-> [path |-> JsNull, extraEnv |-> EmptyExtraEnv],
     trace |-> [server |-> JsString("off")],
     statusBar |-> [show |-> JsString("whenActive"), clickAction |-> JsString("openLogs")],
     completion |-> [enable |-> JsBool(TRUE)],
     hover |-> [enable |-> JsBool(TRUE)],
     signatureHelp |-> [enable |-> JsBool(TRUE)],
     rename |-> [enable |-> JsBool(TRUE)],
     references |-> [enable |-> JsBool(TRUE)],
     diagnostics |-> [enable |-> JsBool(TRUE), onSave |-> JsBool(TRUE), onChange |-> JsBool(TRUE)],
     format |-> [enable |-> JsBool(TRUE), onSave |-> JsBool(FALSE)],
     lint |-> [enable |-> JsBool(TRUE), onSave |-> JsBool(TRUE), fixOnSave |-> JsBool(FALSE)],
     toolchain |-> [promptInstall |-> JsBool(TRUE)],
     initializeStopped |-> JsBool(FALSE)]

ScalarFields ==
    {<<"server", "path">>, <<"trace", "server">>, <<"statusBar", "show">>,
     <<"statusBar", "clickAction">>, <<"completion", "enable">>, <<"hover", "enable">>,
     <<"signatureHelp", "enable">>, <<"rename", "enable">>, <<"references", "enable">>,
     <<"diagnostics", "enable">>, <<"diagnostics", "onSave">>, <<"diagnostics", "onChange">>,
     <<"format", "enable">>, <<"format", "onSave">>, <<"lint", "enable">>,
     <<"lint", "onSave">>, <<"lint", "fixOnSave">>, <<"toolchain", "promptInstall">>}

\* The text has a placeholder: the prefix, a name without "}", and "}".
HasPlaceholder(s) ==
    \E i \in 1..Len(s), k \in 1..Len(s) :
        /\ i + 6 < k
        /\ SubSeq(s, i, i + 5) = EnvPrefix
        /\ s[k] = "}"
        /\ \A j \in (i + 6)..(k - 1) : s[j] # "}"

\* The value of the environment put in place of each placeholder.
RECURSIVE Substitute(_, _)
Substitute(parts, e) ==
    IF parts = <<>> THEN <<>>
    ELSE (IF Head(parts).placeholder
          THEN (IF Head(parts).text \in DOMAIN e THEN e[Head(parts).text] ELSE <<>>)
          ELSE Head(parts).text)
         \o Substitute(Tail(parts), e)

PartsOf(text) == CHOOSE parts \in RawParts : Flatten(parts) = text

C25_EveryFieldRawOrDefault ==
    passes = 1
        => /\ \A sf \in ScalarFields :
                 snapshot[sf[1]][sf[2]] = (IF Given(RawField(sf[1], sf[2]))
                                           THEN RawField(sf[1], sf[2])
                                           ELSE DocumentedDefaults[sf[1]][sf[2]])
           /\ snapshot.initializeStopped = (IF Given(Prop(raw, "initializeStopped"))
                                            THEN raw.initializeStopped
                                            ELSE DocumentedDefaults.initializeStopped)
           /\ LET x == RawField("server", "extraEnv")
              IN /\ DOMAIN snapshot.server.extraEnv
                      = (IF Given(x) THEN {k \in DOMAIN x.val : Given(x.val[k])} ELSE {})
                 /\ \A k \in DOMAIN snapshot.server.extraEnv :
                       DOMAIN snapshot.server.extraEnv[k]
                          = 1..Len(snapshot.server.extraEnv[k])
           /\ raw = EmptyRaw => snapshot = DocumentedDefaults

C25_Witness ==
    /\ passes = 1
    /\ RawField("diagnostics", "enable") = JsBool(FALSE)
    /\ RawField("diagnostics", "onSave").type = "null"
    /\ RawField("server", "path") = JsString("")
    /\ snapshot.diagnostics.enable = JsBool(FALSE)
    /\ snapshot.diagnostics.onSave = JsBool(TRUE)
    /\ snapshot.server.path = JsString("")

\* C26: every value of the normalized extra environment is the raw value with each
\* placeholder replaced by the value of its name in the environment, or by nothing
\* when the name is not set; the text around the placeholders stays, and the text
\* put in is not expanded.
C26_PlaceholdersReplacedOnce ==
    passes = 1
        => \A k \in DOMAIN snapshot.server.extraEnv :
              snapshot.server.extraEnv[k]
                 = Substitute(PartsOf(RawField("server", "extraEnv").val[k].val), env)

C26_Witness ==
    /\ passes = 1
    /\ <<"D">> \in DOMAIN env
    /\ <<"X">> \in DOMAIN env
    /\ "A" \in DOMAIN snapshot.server.extraEnv
    /\ RawField("server", "extraEnv").val["A"].val = Flatten(<<Ph(<<"D">>), Lit(<<"{", "e", "n", "v", ":", "X", "}">>)>>)
    /\ snapshot.server.extraEnv["A"] = Placeholder(<<"X">>)

\* C27: the resolved server path is the explicit path of the snapshot when set, else
\* the debug override of the environment when set, else the bundled binary under
\* the extension root when a root is given and the file exists (named with .exe on
\* win32 and without elsewhere), else the bare command name.
C27_ServerPathPriority ==
    serverPath.called
        => LET explicit == snapshot.server.path
               debug == IF "__SA_LSP_SERVER_DEBUG" \in DOMAIN serverPath.env
                        THEN serverPath.env["__SA_LSP_SERVER_DEBUG"] ELSE ""
               root == IF Given(serverPath.extensionPath)
                       THEN serverPath.extensionPath.val ELSE ""
               bundled == root \o "/server/solidity-analyzer"
                          \o (IF serverPath.platform = "win32" THEN ".exe" ELSE "")
           IN serverPath.result
                 = (IF Given(explicit) /\ explicit.val # "" THEN explicit.val
                    ELSE IF debug # "" THEN debug
                    ELSE IF root # "" /\ bundled \in serverPath.files THEN bundled
                    ELSE "solidity-analyzer")

C27_Witness ==
    /\ serverPath.called
    /\ snapshot.server.path = JsString("/bin/sa")
    /\ "__SA_LSP_SERVER_DEBUG" \in DOMAIN serverPath.env
    /\ serverPath.env["__SA_LSP_SERVER_DEBUG"] = "/tmp/debug"
    /\ serverPath.extensionPath = JsString("/ext")
    /\ serverPath.platform = "win32"
    /\ "/ext/server/solidity-analyzer.exe" \in serverPath.files
    /\ serverPath.result = "/bin/sa"

\* C28: the text and the tooltip of the status bar item are those of the session
\* state and the stored health, after every assignment of the state and every
\* health notification: fixed for starting, error and stopped; for running the
\* check icon without health, and with health the icon of error, warning,
\* quiescent or busy, in that order, followed by the message or by OK.
C28_StatusIsFunctionOfStateAndHealth ==
    LET params == StatusParams(lspStatus)
        message == IF Given(params.message) /\ params.message.val # ""
                   THEN params.message.val ELSE "OK"
        icon == CASE params.health = "error" -> "$(error)"
                  [] params.health = "warning" -> "$(warning)"
                  [] params.quiescent -> "$(check)"
                  [] OTHER -> "$(sync~spin)"
    IN /\ statusBarState = "starting"
            => /\ statusBar.text = "$(sync~spin) solidity-analyzer"
               /\ statusBar.tooltip = "solidity-analyzer is starting."
       /\ statusBarState = "error"
            => /\ statusBar.text = "$(error) solidity-analyzer"
               /\ statusBar.tooltip = "solidity-analyzer encountered an error."
       /\ statusBarState = "stopped"
            => /\ statusBar.text = "$(circle-slash) solidity-analyzer"
               /\ statusBar.tooltip = "solidity-analyzer is stopped."
       /\ (statusBarState = "running" /\ lspStatus = NoStatus)
            => /\ statusBar.text = "$(check) solidity-analyzer"
               /\ statusBar.tooltip = "solidity-analyzer is running."
       /\ (statusBarState = "running" /\ lspStatus # NoStatus)
            => /\ statusBar.text = icon \o " solidity-analyzer: " \o message
               /\ statusBar.tooltip = "solidity-analyzer: " \o message

C28_Witness ==
    /\ statusBarState = "running"
    /\ lspStatus = "warningBusy"
    /\ statusBar.text = "$(warning) solidity-analyzer: OK"

\* C29: the status bar item is visible exactly when the policy is always, or the
\* policy is whenActive and the focused document is a solidity document.
C29_VisibilityFollowsPolicy ==
    statusBar.visible
        <=> \/ ShowOf(config) = "always"
            \/ (ShowOf(config) = "whenActive" /\ activeEditor = "solidity")

C29_Witness ==
    /\ config # 0
    /\ ShowOf(config) = "whenActive"
    /\ activeEditor = "solidity"
    /\ statusBar.visible

\* C30: the client options hold the three experimental flags as true whatever the
\* snapshot; after the capability set is put into a handshake, every key of the
\* overrides has the value of the overrides, the three flags are present, and what
\* the handshake held under keys the overrides do not name is kept.
C30_ExperimentalCapabilities ==
    /\ options.built
          => options.experimental
                = [snippetTextEdit |-> TRUE, codeActionGroup |-> TRUE,
                   serverStatusNotification |-> TRUE]
    /\ capabilities.applied
          => /\ \A k \in DOMAIN capabilities.overrides :
                   capabilities.experimental[k] = capabilities.overrides[k]
             /\ {"snippetTextEdit", "codeActionGroup", "serverStatusNotification"}
                   \subseteq DOMAIN capabilities.experimental
             /\ capabilities.existing.type = "object"
                   => \A k \in DOMAIN capabilities.existing.val \ DOMAIN capabilities.overrides :
                         capabilities.experimental[k] = capabilities.existing.val[k]

C30_Witness ==
    /\ options.built
    /\ snapshot.trace.server = JsString("verbose")
    /\ capabilities.applied
    /\ capabilities.existing.type = "object"
    /\ DOMAIN capabilities.existing.val = {"snippetTextEdit", "custom"}
    /\ ~capabilities.existing.val["snippetTextEdit"]
    /\ DOMAIN capabilities.overrides = {"codeActionGroup"}
    /\ ~capabilities.overrides["codeActionGroup"]
    /\ capabilities.experimental
          = [snippetTextEdit |-> FALSE, codeActionGroup |-> FALSE,
             serverStatusNotification |-> TRUE, custom |-> capabilities.existing.val["custom"]]

\* C31: the payload prepare produces for a normalized snapshot is equal to the
\* snapshot field for field, every section and every field of it being forwarded
\* with its value; the initialization payload of the client options is prepare
\* applied to the snapshot the options were built from.
C31_PayloadMirrorsSnapshot ==
    /\ passes >= 1 =>
          LET payload == PrepareVSCodeConfig(snapshot)
          IN /\ DOMAIN payload = DOMAIN snapshot
             /\ \A section \in DOMAIN snapshot : payload[section] = snapshot[section]
    /\ options.built =>
          /\ options.initializationOptions = PrepareVSCodeConfig(snapshot)
          /\ options.initializationOptions = snapshot

C31_Witness ==
    /\ options.built
    /\ snapshot.server.path = JsString("/bin/sa")
    /\ DOMAIN snapshot.server.extraEnv = {"A", "B"}
    /\ snapshot.server.extraEnv["A"] = <<"v">>
    /\ snapshot.trace.server = JsString("verbose")
    /\ options.initializationOptions.server.extraEnv = snapshot.server.extraEnv
    /\ options.initializationOptions.trace.server = JsString("verbose")

\* The steps of start() from the adoption of its snapshot to its setTrace.
StartHasAdopted(l) ==
    l.op \in {"start", "restart"} /\ l.pc \in {"s_update", "s_create", "s_bringup"}

\* C32: a start() adopts its override, else the held snapshot, else the snapshot it
\* loads; the server options and the initialization payload of the client it builds
\* and the verbosity it sets after the commit are those of the adopted snapshot,
\* whatever updateConfig() has made of the held snapshot meanwhile.
C32_StartUsesAdoptedSnapshot ==
    [][\A p \in Procs :
          /\ (~StartHasAdopted(calls[p]) /\ calls'[p].pc = "s_update")
                => calls'[p].cfg = IF inv'.op = "start" /\ inv'.arg # 0 THEN inv'.arg
                                   ELSE IF calls[p].pc # "s_load" THEN config
                                   ELSE config'
          /\ (StartHasAdopted(calls[p]) /\ calls'[p].pc # "idle")
                => calls'[p].cfg = calls[p].cfg
          /\ (calls[p].pc = "s_update" /\ calls'[p].pc = "s_create")
                => calls'[p].so = calls[p].cfg
          /\ (calls[p].pc = "s_create" /\ calls'[p].pc = "s_bringup")
                => /\ calls'[p].so = calls[p].cfg
                   /\ cfgSent'[calls'[p].cl] = calls[p].cfg
          /\ (calls[p].pc = "s_bringup" /\ calls'[p].pc = "s_trace")
                => /\ client' = calls[p].cl
                   /\ traceSet'[calls[p].cl] = TraceOf(calls[p].cfg)]_vars

C32_Witness ==
    \E p \in Procs :
        /\ calls[p].op = "start"
        /\ calls[p].pc = "s_trace"
        /\ client = calls[p].cl
        /\ config # 0
        /\ config # calls[p].cfg
        /\ traceSet[client] = TraceOf(calls[p].cfg)
        /\ calls[p].so = calls[p].cfg
        /\ cfgSent[client] = calls[p].cfg

\* No start(), stop(), restart() or dispose() is in flight.
NoLifecycleCall == \A p \in Procs : calls[p].op \notin {"start", "stop", "restart", "dispose"}

\* C33: whenever no start(), stop(), restart() or dispose() is in flight, a client is
\* committed exactly when the session state is starting or running.
C33_CommittedIffStartingOrRunning ==
    NoLifecycleCall => ((client # 0) <=> (statusBarState \in {"starting", "running"}))

\* In this step start() of p enters its catch block.
StartCaught(p) ==
    /\ calls[p].op \in {"start", "restart"}
    /\ calls[p].pc \in {"s_load", "s_update", "s_create", "s_bringup", "s_trace"}
    /\ \/ calls'[p].pc = "s_cleanup"
       \/ ret'.proc = p /\ ret'.outcome = "threw"

\* C34: a failing start() leaves the committed reference alone when it holds the
\* client of another start(), and it disposes its own subscriptions and shuts its
\* own client down exactly when its own client was built and is not committed.
C34_FailedStartTouchesOnlyItsOwn ==
    [][\A p \in Procs :
          /\ (ret'.proc = p /\ ret'.op \in {"start", "restart"} /\ ret'.outcome = "threw"
                 /\ client # 0 /\ client # calls[p].cl)
                => client' = client
          /\ StartCaught(p) =>
                LET c == calls[p].cl
                IN IF c # 0 /\ client # c
                   THEN /\ calls'[p].pc = "s_cleanup"
                        /\ stateListener'[c] = "disposed"
                        /\ statusListener'[c] = "disposed"
                   ELSE calls'[p].pc # "s_cleanup"]_vars

\* C35: client.stop() is called at most once on each client.
C35_ShutdownRequestedAtMostOnce == \A c \in Clients : stopRequests[c] <= 1

\* C36: whenever nothing is in flight and a client is committed, the configuration
\* last delivered to it and its trace verbosity are those of the held snapshot.
C36_CommittedClientHasHeldSnapshot ==
    (NoneInFlight /\ client # 0)
        => (cfgSent[client] = config /\ traceSet[client] = TraceOf(config))

\* C37: the fallback install handler never dispatches to itself: when its start()
\* has returned without error, the command it forwards is not handed to the
\* registry's own registration (the handler is not entered again).
C37_FallbackNeverDispatchesToItself == \A p \in Procs : calls[p].pc # "i_entry"

\* C38: in activate, when the loaded snapshot has the start-stopped flag set no
\* start() is called, no client is built, the state is stopped and the fallback is
\* registered when activate returns; with the flag clear nothing is registered
\* while start() runs, the commands are registered only after start() returned
\* without error, and when start() failed activate disposes the controller and
\* rethrows with no command registered.
C38_ActivationOrder ==
    [][\A p \in Procs :
          calls[p].op = "activate" =>
             /\ (calls[p].pc = "a_load" /\ calls'[p].pc \notin {"idle", "a_load"})
                   => (inv'.op = "start" /\ ~InitializeStopped(inv'.arg))
             /\ (calls[p].pc = "a_load" /\ ret'.proc = p /\ ret'.outcome = "ok")
                   => /\ inv'.op # "start"
                      /\ built' = 0
                      /\ client' = 0
                      /\ statusBarState' = "stopped"
                      /\ registry' = "live"
                      /\ installCommandDisposable'
                      /\ liveRegistrations' = 1
             /\ calls'[p].pc # "idle" => (registry' = "none" /\ liveRegistrations' = 0)
             /\ (calls[p].pc # "a_load" /\ ret'.proc = p /\ ret'.outcome = "ok")
                   => /\ calls[p].pc = "s_trace"
                      /\ calls[p].err = "none"
                      /\ registry' = "live"
             /\ (calls[p].pc # "a_load" /\ ret'.proc = p /\ ret'.outcome = "threw")
                   => /\ calls[p].pc = "d_stopped"
                      /\ calls[p].err # "none"
                      /\ client' = 0
                      /\ registry' = "none"
                      /\ liveRegistrations' = 0]_vars

C38_Witness ==
    /\ ret.op = "activate"
    /\ ret.outcome = "threw"
    /\ ret.failedAt = "bringup"
    /\ config = 1
    /\ built = 1
    /\ registry = "none"
    /\ liveRegistrations = 0
    /\ statusBarState = "stopped"

\* C39: when every pending call settles, every invocation of start(), stop(),
\* restart() and dispose() returns in the end, and after a start() has returned
\* with a failure the session state does not stay starting for ever.
C39_EveryOperationReturns ==
    /\ \A p \in Procs : (calls[p].pc # "idle") ~> (calls[p].pc = "idle")
    /\ (StartReturned /\ ret.outcome = "threw") ~> (statusBarState # "starting")

C39_Witness ==
    /\ ret.op = "restart"
    /\ ret.outcome = "threw"
    /\ ret.failedAt = "create"
    /\ ret.met = 0
    /\ NoneInFlight
    /\ statusBarState = "error"
    /\ client = 0

====
